---- MODULE Spec2Model ----
(***************************************************************************)
(* Model of the DICOM receiver (dicom_receiver): the identity store         *)
(* (core/crypto.py, DicomAnonymizer), the C-STORE handlers (core/scp.py,    *)
(* core/handlers/store_handler.py), the object store's path derivation      *)
(* (core/storage.py, DicomStorage), the study quiescence monitor            *)
(* (core/storage.py, StudyMonitor), the auto-forwarder                      *)
(* (core/node_manager.py, NodeManager), the study-complete callback with    *)
(* its upload and cleanup (core/scp.py, core/uploader.py), the C-MOVE      *)
(* and C-GET handlers (core/handlers/move_handler.py, get_handler.py,       *)
(* core/scp.py), the C-FIND handlers (core/handlers/find_handler.py,        *)
(* core/query_handlers, core/scp.py), the 401 path of the API requests      *)
(* (core/query.py, core/uploader.py, core/utils/api_integration.py), the    *)
(* shutdown of the threads and the write of the mapping file.               *)
(*                                                                          *)
(* Python strings are sequences of one-character strings, so that           *)
(* formatting, prefix tests and character filters are computed and not      *)
(* assumed.  A DICOM element value is the sequence of its values (its       *)
(* value multiplicity): <<>> is the empty value, <<s>> a single value.      *)
(***************************************************************************)
EXTENDS Integers, Sequences, FiniteSets, TLC

VARIABLES
    \* ---- DicomAnonymizer (core/crypto.py) ----
    patient_name_map,   \* dict: original PatientName -> "sub-NNN"
    patient_counter,    \* int: next counter value
    patient_info_map,   \* dict: StudyInstanceUID -> dict: PII tag -> original value
    map_file,           \* content of the mapping file on disk
    dataset,            \* the dataset object the last call acted on (mutated in place)
    received,           \* that dataset as it was handed to the call
    last_call,          \* the last call and what it returned
    first_seen,         \* history: PatientNames in the order they were first anonymised
    \* ---- concurrent C-STORE handlers running anonymize_dataset ----
    assoc,              \* per association thread: position and locals
    patient_map_lock,   \* threading.Lock: holder or NoThread
    calls_left,         \* anonymise calls each association may still issue
    handed_out,         \* history: bag of counter values formatted into a new tag
    \* ---- DicomStorage and the C-STORE handlers ----
    patient_study_map,  \* DicomStorage.patient_study_map: patient dir -> set of studies
    files,              \* storage directory: path -> dataset written there
    last_store,         \* the last C-STORE: handler, path, status
    stores,             \* C-STORE requests handled so far
    \* ---- StudyMonitor (core/storage.py) ----
    timeout,            \* StudyMonitor.timeout (seconds)
    study_last_activity,\* dict: study -> seconds elapsed since the stored timestamp
    active_studies,     \* set of studies
    study_monitor_lock, \* threading.Lock: holder or NoThread
    monitor,            \* the monitor thread: position and locals
    toucher,            \* per C-STORE thread inside update_study_activity: position and locals
    touches_left,       \* update_study_activity calls still to come
    since_touch,        \* history: study -> age of the timestamp of the last touch that took effect
    pending,            \* history: study -> touched and no callback invoked since
    invoked,            \* history: study -> callback -> invocations since the last touch
    fired,              \* history: the last callback invocation
    \* ---- NodeManager (core/node_manager.py) ----
    nodes,              \* dict: node id -> node configuration
    sent_tracking,      \* dict: node id -> series forwarded to it (the ledger in memory)
    tracking_file,      \* forwarding_tracking.json: the ledger on disk
    af,                 \* the polling thread: position and locals of the tick
    admin_left,         \* management calls and restarts still to come
    acked,              \* history: (node, series) forwarded with success in this process, not cleared since
    failed,             \* history: (node, series, tick) of failed forwards not attempted again since
    tick_ok,            \* history: (node, series) forwarded with success in the last tick, not cleared since
    removed,            \* history: nodes removed and not added again
    send_call,          \* the last _send_files_to_node call and what it returned
    \* ---- C-STORE handlers against the study-complete callback (core/scp.py, core/uploader.py) ----
    store_thread,       \* per C-STORE handler thread: position and the instance it stores
    completion,         \* the monitor thread: position in scan, _finalize_study and the callback; zip content
    study_activity,     \* StudyMonitor: state of the study's timestamp, membership in active_studies
    study_dir,          \* the study directory: whether it exists, the instance files in it
    upload_hist,        \* history: instances not sent yet, stored with 0x0000, uploaded, deleted
    \* ---- C-MOVE and C-GET handlers (core/handlers, core/scp.py) ----
    retrieve,           \* the last C-MOVE or C-GET: handler, request, responses yielded
    \* ---- C-FIND handlers (core/handlers/find_handler.py, core/query_handlers, core/scp.py) ----
    find,               \* the last C-FIND: handler, request, storage it ran against, responses yielded
    \* ---- C-STORE handlers with a failing step (core/handlers/store_handler.py, core/scp.py) ----
    assoc_stores,       \* the C-STOREs of one association: handler, the step that failed, what came out of the handler
    \* ---- DicomStorage.get_file_path (core/storage.py) ----
    path_calls,         \* the get_file_path calls made: the dataset and the path returned
    \* ---- API requests answered with 401 (core/query.py, core/uploader.py, core/utils/api_integration.py) ----
    api_call,           \* the last API request: operation, what the server answered, tokens sent, logins made, result
    \* ---- shutdown: DicomServiceProvider.start/stop, the monitor loop, the polling loop ----
    proc,               \* the process after start(): main thread, listener, monitor and poller threads, the two events
    \* ---- DicomAnonymizer._save_patient_info_map against a crash (core/crypto.py) ----
    map_save,           \* the mapping file during _save_patient_info_map: position, mapping in memory, mapping before the save, bytes on disk, crash
    \* ---- DicomAnonymizer over process restarts (core/crypto.py) ----
    idstore,            \* the identity store over restarts: name map and counter in memory, position of the save, mapping file, tags issued so far
    \* ---- completion callbacks that raise ----
    finalizer,          \* the monitor thread running the completion callbacks of one pass
    \* ---- start and stop of the polling thread ----
    polling,            \* NodeManager: is_running, stop_event, polling_thread, the polling threads started so far, the caller of start/stop
    \* ---- de-anonymisation by the query handler ----
    query_handler       \* DicomQueryHandler: the patient_name_map of its own DicomAnonymizer, and the last de-anonymisation

isVars    == <<patient_name_map, patient_counter, patient_info_map, map_file,
               dataset, received, last_call, first_seen>>
concVars  == <<assoc, patient_map_lock, calls_left, handed_out>>
storeVars == <<patient_study_map, files, last_store, stores>>
qmVars    == <<timeout, study_last_activity, active_studies, study_monitor_lock,
               monitor, toucher, touches_left, since_touch, pending, invoked, fired>>
afVars    == <<nodes, sent_tracking, tracking_file, af, admin_left,
               acked, failed, tick_ok, removed>>
sendVars  == <<send_call>>
\* the parts of the state added after the identity store, the C-STORE handlers
\* and the study monitor
upVars    == <<store_thread, completion, study_activity, study_dir, upload_hist>>
qrVars    == <<retrieve>>
findVars  == <<find>>
seVars    == <<assoc_stores>>
pathVars  == <<path_calls>>
authVars  == <<api_call>>
procVars  == <<proc>>
saveVars  == <<map_save>>
rsVars    == <<idstore>>
cbVars    == <<finalizer>>
pollVars  == <<polling>>
qhVars    == <<query_handler>>
restVars  == <<afVars, sendVars, upVars, qrVars, findVars, seVars, pathVars, authVars, procVars, saveVars, rsVars, cbVars, pollVars, qhVars>>
vars      == <<isVars, concVars, storeVars, qmVars, restVars>>

NoThread == "none"

(***************************************************************************)
(* Strings                                                                 *)
(***************************************************************************)
DigitChars == <<"0", "1", "2", "3", "4", "5", "6", "7", "8", "9">>
Digits     == {DigitChars[i] : i \in 1..10}

RECURSIVE DecimalDigits(_)
\* str(n) for n >= 0
DecimalDigits(n) ==
    IF n < 10 THEN <<DigitChars[n + 1]>>
    ELSE DecimalDigits(n \div 10) \o <<DigitChars[(n % 10) + 1]>>

RECURSIVE ZeroPad(_, _)
ZeroPad(s, width) == IF Len(s) >= width THEN s ELSE ZeroPad(<<"0">> \o s, width)

\* f"{n:02d}": a plausible slip of the width
Format02d(n) == ZeroPad(DecimalDigits(n), 2)

\* f"{n:03d}"
Format03d(n) == ZeroPad(DecimalDigits(n), 3)

StartsWith(s, prefix) ==
    Len(s) >= Len(prefix) /\ SubSeq(s, 1, Len(prefix)) = prefix

Contains(s, ch) == \E i \in 1..Len(s) : s[i] = ch

SubPrefix == <<"s", "u", "b", "-">>
ANON      == <<"A", "N", "O", "N">>

RECURSIVE JoinRepr(_)
\* ", ".join(repr(x) for x in values)
JoinRepr(values) ==
    IF Len(values) = 0 THEN <<>>
    ELSE <<"'">> \o values[1] \o <<"'">>
         \o (IF Len(values) > 1 THEN <<",", " ">> \o JoinRepr(Tail(values)) ELSE <<>>)

\* str() of an element value: '' for an empty value, the string itself for a
\* single value, "['a', 'b']" for a multi-valued element (pydicom MultiValue)
PyStr(value) ==
    IF Len(value) = 0 THEN <<>>
    ELSE IF Len(value) = 1 THEN value[1]
    ELSE <<"[">> \o JoinRepr(value) \o <<"]">>

(***************************************************************************)
(* Datasets                                                                *)
(***************************************************************************)
PII_TAGS == <<"PatientName", "PatientID", "PatientBirthDate", "PatientAddress",
              "PatientTelephoneNumbers", "OtherPatientIDs", "OtherPatientNames">>

PiiTagSet == {PII_TAGS[i] : i \in 1..Len(PII_TAGS)}

HasAttr(ds, tag) == tag \in DOMAIN ds.elems
GetAttr(ds, tag) == ds.elems[tag]
Truthy(value)    == Len(value) > 0

\* setattr(dataset, tag, s) with s a str
SetAttr(ds, tag, s) ==
    [ds EXCEPT !.elems = [t \in (DOMAIN ds.elems) \cup {tag} |->
        IF t = tag THEN (IF Len(s) = 0 THEN <<>> ELSE <<s>>) ELSE ds.elems[t]]]

\* a dataset: the three UIDs, its other elements by keyword, and the
\* attributes the file-meta fix-up sets ("" stands for an attribute not set)
NoDataset == [StudyInstanceUID |-> "", SeriesInstanceUID |-> "",
              SOPInstanceUID |-> "", elems |-> <<>>,
              preamble |-> "", file_meta |-> <<>>,
              is_little_endian |-> "", is_implicit_VR |-> ""]

(***************************************************************************)
(* DicomAnonymizer (core/crypto.py)                                         *)
(***************************************************************************)
\* int(s): the decimal value of a string of digits
RECURSIVE ParseInt(_)
ParseInt(s) ==
    IF Len(s) = 0 THEN 0
    ELSE 10 * ParseInt(SubSeq(s, 1, Len(s) - 1))
         + (CHOOSE d \in 0..9 : DigitChars[d + 1] = s[Len(s)])

\* s.split('-')[1] of a string that starts with 'sub-': up to the next '-'
RECURSIVE UpToDash(_)
UpToDash(s) ==
    IF Len(s) = 0 \/ s[1] = "-" THEN <<>> ELSE <<s[1]>> \o UpToDash(Tail(s))

\* the counter an anonymised name contributes, 0 when it is skipped
TagCounter(anon_name) ==
    IF ~StartsWith(anon_name, SubPrefix) THEN 0
    ELSE LET part == UpToDash(SubSeq(anon_name, Len(SubPrefix) + 1, Len(anon_name)))
         IN IF Len(part) > 0 /\ \A i \in 1..Len(part) : part[i] \in Digits
            THEN ParseInt(part) ELSE 0

SetMax(S) == IF S = {} THEN 0 ELSE CHOOSE m \in S : \A x \in S : x <= m

\* DicomAnonymizer._get_next_patient_counter
GetNextPatientCounter(name_map) ==
    SetMax({TagCounter(name_map[n]) : n \in DOMAIN name_map}) + 1

\* the tag built from the counter: f"sub-{self.patient_counter:03d}"
AnonName(counter) == SubPrefix \o Format03d(counter)

\* a slip: the lookup of an existing entry is skipped
GetAnonymizedPatientNameNoLookup(name_map, counter, original_name) ==
    [name_map |-> [n \in (DOMAIN name_map) \cup {original_name} |->
                      IF n = original_name THEN AnonName(counter) ELSE name_map[n]],
     counter  |-> counter + 1,
     result   |-> AnonName(counter)]

\* DicomAnonymizer._get_anonymized_patient_name, run without interruption
GetAnonymizedPatientName(name_map, counter, original_name) ==
    IF original_name \in DOMAIN name_map
    THEN [name_map |-> name_map, counter |-> counter, result |-> name_map[original_name]]
    ELSE [name_map |-> [n \in (DOMAIN name_map) \cup {original_name} |->
                           IF n = original_name THEN AnonName(counter) ELSE name_map[n]],
          counter  |-> counter + 1,
          result   |-> AnonName(counter)]

\* a slip: PatientID is replaced like the other fields
FieldPolicyAnonId(tag, value, name_tag) ==
    IF tag = "PatientName" THEN name_tag ELSE ANON

\* anonymize_dataset, "Apply anonymization based on field type"
FieldPolicy(tag, value, name_tag) ==
    IF tag = "PatientName" THEN name_tag
    ELSE IF tag = "PatientID" THEN value
    ELSE ANON

\* the test that selects the fields anonymize_dataset processes
IsProcessed(ds, tag) == HasAttr(ds, tag) /\ Truthy(GetAttr(ds, tag))

\* "Store original value for later retrieval": only the first value is kept
RecordOriginal(info, study, tag, value) ==
    IF tag \in DOMAIN info[study] THEN info
    ELSE [info EXCEPT ![study] =
            [t \in (DOMAIN info[study]) \cup {tag} |->
                IF t = tag THEN value ELSE info[study][t]]]

\* one iteration of the loop over PII_TAGS of anonymize_dataset
AnonymizeTag(st, tag) ==
    IF ~IsProcessed(st.dataset, tag) THEN st
    ELSE LET value == PyStr(GetAttr(st.dataset, tag))
             study == st.dataset.StudyInstanceUID
             n     == IF tag = "PatientName"
                      THEN GetAnonymizedPatientName(st.name_map, st.counter, value)
                      ELSE [name_map |-> st.name_map, counter |-> st.counter,
                            result |-> <<>>]
         IN [dataset       |-> SetAttr(st.dataset, tag, FieldPolicy(tag, value, n.result)),
             info          |-> RecordOriginal(st.info, study, tag, value),
             name_map      |-> n.name_map,
             counter       |-> n.counter,
             original_info |-> [t \in (DOMAIN st.original_info) \cup {tag} |->
                                   IF t = tag THEN value ELSE st.original_info[t]]]

RECURSIVE AnonymizeLoop(_, _)
AnonymizeLoop(st, i) ==
    IF i > Len(PII_TAGS) THEN st
    ELSE AnonymizeLoop(AnonymizeTag(st, PII_TAGS[i]), i + 1)

\* "Initialize map if needed"
InitStudy(info, study) ==
    IF study \in DOMAIN info THEN info
    ELSE [s \in (DOMAIN info) \cup {study} |-> IF s = study THEN <<>> ELSE info[s]]

\* a document whose patient_study_map is left empty
CombinedMapNoIndex(info, name_map) ==
    [exists |-> TRUE, patient_info |-> info, patient_name_map |-> name_map,
     patient_study_map |-> <<>>]

\* the document _save_patient_info_map writes; patient_study_map is rebuilt
\* from patient_info (a list without duplicates, here the set of its members)
CombinedMap(info, name_map) ==
    LET withId == {s \in DOMAIN info : "PatientID" \in DOMAIN info[s]}
        ids    == {info[s]["PatientID"] : s \in withId}
    IN [exists            |-> TRUE,
        patient_info      |-> info,
        patient_name_map  |-> name_map,
        patient_study_map |-> [p \in ids |-> {s \in withId : info[s]["PatientID"] = p}]]

\* DicomAnonymizer.anonymize_dataset, run without interruption
AnonymizeDataset(ds, name_map, counter, info) ==
    AnonymizeLoop([dataset |-> ds, info |-> InitStudy(info, ds.StudyInstanceUID),
                   name_map |-> name_map, counter |-> counter,
                   original_info |-> <<>>], 1)

RECURSIVE RestoreLoop(_, _, _)
\* the loop of restore_dataset over the recorded fields of the study
RestoreLoop(ds, recorded, tags) ==
    IF tags = {} THEN ds
    ELSE LET tag == CHOOSE t \in tags : TRUE
         IN RestoreLoop(IF HasAttr(ds, tag) THEN SetAttr(ds, tag, recorded[tag]) ELSE ds,
                        recorded, tags \ {tag})

\* DicomAnonymizer.restore_dataset
RestoreDataset(ds, info) ==
    IF ds.StudyInstanceUID \notin DOMAIN info
    THEN [dataset |-> ds, result |-> FALSE]
    ELSE [dataset |-> RestoreLoop(ds, info[ds.StudyInstanceUID],
                                  DOMAIN info[ds.StudyInstanceUID]),
          result  |-> TRUE]

\* DicomAnonymizer.get_anonymized_patient_name(study_uid); <<>> stands for None
AnonymizedNameOfStudy(study, info, name_map) ==
    IF study \in DOMAIN info /\ "PatientName" \in DOMAIN info[study]
       /\ Len(info[study]["PatientName"]) > 0
       /\ info[study]["PatientName"] \in DOMAIN name_map
    THEN name_map[info[study]["PatientName"]]
    ELSE <<>>

(***************************************************************************)
(* Inputs                                                                  *)
(***************************************************************************)
DOE_JOHN == <<"D", "O", "E", "^", "J", "O", "H", "N">>
ROE_JANE == <<"R", "O", "E", "^", "J", "A", "N", "E">>
POE_ANNE == <<"P", "O", "E", "^", "A", "N", "N", "E">>
Names    == {DOE_JOHN, ROE_JANE, POE_ANNE}
Studies  == {"1.2.1", "1.2.2"}

Absent      == [present |-> FALSE, value |-> <<>>]
Present(v)  == [present |-> TRUE, value |-> v]

\* the elements of a dataset from what each attribute holds, if present
MkElems(all) == [t \in {k \in DOMAIN all : all[k].present} |-> all[t].value]

\* a dataset as pynetdicom hands it to a handler; ts is the TransferSyntaxUID
\* of its file meta, "" when it carries none
MkDataset(study, series, sop, all, ts) ==
    [StudyInstanceUID |-> study, SeriesInstanceUID |-> series,
     SOPInstanceUID |-> sop, elems |-> MkElems(all),
     preamble |-> "",
     file_meta |-> IF ts = "" THEN <<>> ELSE [k \in {"TransferSyntaxUID"} |-> ts],
     is_little_endian |-> "", is_implicit_VR |-> ""]

BIRTH_DATE == <<"1", "9", "7", "0", "0", "1", "0", "1">>
PID_1      == <<"P", "1">>
PID_2      == <<"P", "2">>
CT         == <<"C", "T">>

NameOptions == {Absent, Present(<<>>)} \cup {Present(<<n>>) : n \in Names}

\* the other PII fields of a dataset: a birth date that is present but empty
\* and no OtherPatientIDs, or a birth date and a two-valued OtherPatientIDs
SparseFields == ("PatientBirthDate" :> Present(<<>>)) @@ ("OtherPatientIDs" :> Absent)
FullFields   == ("PatientBirthDate" :> Present(<<BIRTH_DATE>>))
                @@ ("OtherPatientIDs" :> Present(<<<<"A", "1">>, <<"B", "2">>>>))

ISDataset(study, pn, fields) ==
    MkDataset(study, "1.2.1.1", "1.2.1.1.1",
              ("PatientName" :> pn) @@ ("PatientID" :> Present(<<PID_1>>))
              @@ fields @@ ("Modality" :> Present(<<CT>>)), "")

\* the datasets handed to the identity store.  Study 1.2.1: PatientName
\* absent, empty or one of three names, with either set of other fields;
\* study 1.2.2: one of the three names, and one name with another PatientID
\* or none.  Modality is not a PII field.
ISDatasets ==
    {ISDataset("1.2.1", pn, f) : pn \in NameOptions, f \in {SparseFields, FullFields}}
    \cup {ISDataset("1.2.2", Present(<<n>>), SparseFields) : n \in Names}
    \cup {MkDataset("1.2.2", "1.2.1.1", "1.2.1.1.1",
                     ("PatientName" :> Present(<<DOE_JOHN>>)) @@ ("PatientID" :> pid)
                     @@ SparseFields @@ ("Modality" :> Present(<<CT>>)), "") :
              pid \in {Absent, Present(<<PID_2>>)}}

(***************************************************************************)
(* State after construction                                                *)
(***************************************************************************)
\* no mapping file on disk
NoFile == [exists |-> FALSE, patient_info |-> <<>>, patient_name_map |-> <<>>,
           patient_study_map |-> <<>>]

NoCall == [op |-> "none", original_info |-> <<>>, result |-> FALSE]

\* DicomAnonymizer.__init__ with no mapping file on disk
InitIS ==
    /\ patient_name_map = <<>>
    /\ patient_info_map = <<>>
    /\ patient_counter = GetNextPatientCounter(<<>>)
    /\ map_file = NoFile
    /\ dataset = NoDataset
    /\ received = NoDataset
    /\ last_call = NoCall
    /\ first_seen = <<>>

(***************************************************************************)
(* The identity store, one call at a time                                   *)
(***************************************************************************)
\* anonymize_dataset(ds), including its trailing _save_patient_info_map
Anonymize(ds) ==
    LET r == AnonymizeDataset(ds, patient_name_map, patient_counter, patient_info_map)
    IN /\ patient_name_map' = r.name_map
       /\ patient_counter' = r.counter
       /\ patient_info_map' = r.info
       /\ map_file' = CombinedMap(r.info, r.name_map)
       /\ dataset' = r.dataset
       /\ received' = ds
       /\ last_call' = [op |-> "anonymize_dataset", original_info |-> r.original_info,
                        result |-> TRUE]
       /\ first_seen' = IF IsProcessed(ds, "PatientName")
                           /\ \A i \in 1..Len(first_seen) :
                                 first_seen[i] /= PyStr(GetAttr(ds, "PatientName"))
                        THEN Append(first_seen, PyStr(GetAttr(ds, "PatientName")))
                        ELSE first_seen

\* restore_dataset on the dataset object at hand
Restore ==
    /\ dataset /= NoDataset
    /\ LET r == RestoreDataset(dataset, patient_info_map)
       IN /\ dataset' = r.dataset
          /\ last_call' = [op |-> "restore_dataset", original_info |-> <<>>,
                           result |-> r.result]
    /\ UNCHANGED <<patient_name_map, patient_counter, patient_info_map, map_file,
                   received, first_seen>>

(***************************************************************************)
(* Threads, bounds and the remaining initial state                          *)
(***************************************************************************)
Assocs    == {"a1", "a2"}        \* association threads running C-STORE handlers
Callbacks == <<"study_complete_handler">>   \* StudyMonitor.study_complete_callbacks

MaxCallsPerAssoc == 1   \* anonymise calls per association in the interleaved runs
MaxStores        == 3   \* C-STORE requests in a run of the handlers
MaxTimeout       == 2   \* the monitor's timeout is drawn from 1..MaxTimeout seconds
MaxTouches       == 3   \* update_study_activity calls in a run of the monitor
MaxCallbackTime  == 1   \* a completion callback runs for 0..MaxCallbackTime seconds

IdleAssoc == [pc |-> "idle", ds |-> NoDataset, i |-> 0, value |-> <<>>,
              anon_name |-> <<>>, loaded |-> 0]

InitConc ==
    /\ assoc = [a \in Assocs |-> IdleAssoc]
    /\ patient_map_lock = NoThread
    /\ calls_left = [a \in Assocs |-> MaxCallsPerAssoc]
    /\ handed_out = <<>>

NoStore == [handler |-> "none", path |-> <<>>, status |-> -1]

\* DicomStorage.__init__ on an empty storage directory
InitStore ==
    /\ patient_study_map = <<>>
    /\ files = <<>>
    /\ last_store = NoStore
    /\ stores = 0

IdleMonitor == [pc |-> "top", current_time |-> 0, studies_to_finalize |-> <<>>,
                callback |-> 0, busy |-> 0, sleep |-> 0]
IdleToucher == [pc |-> "idle", study |-> "", now |-> 0]
NoFired     == [study |-> "", callback |-> 0, since_touch |-> 0]

\* StudyMonitor.__init__(timeout) followed by register_study_complete_callback
InitQM ==
    /\ timeout \in 1..MaxTimeout
    /\ study_last_activity = <<>>
    /\ active_studies = {}
    /\ study_monitor_lock = NoThread
    /\ monitor = IdleMonitor
    /\ toucher = [a \in Assocs |-> IdleToucher]
    /\ touches_left = MaxTouches
    /\ since_touch = <<>>
    /\ pending = [s \in Studies |-> FALSE]
    /\ invoked = [s \in Studies |-> [c \in 1..Len(Callbacks) |-> 0]]
    /\ fired = NoFired

\* the node ids of the default nodes.json, in its order
NodeOrder == <<"horos_workstation", "pacs_server">>
NodeIds   == {NodeOrder[i] : i \in 1..Len(NodeOrder)}

MaxTicks    == 2   \* ticks of the polling loop in a run
MaxAdminOps == 1   \* management calls and restarts in a run
MaxFiles    == 5   \* files of a series handed to _send_files_to_node

\* _create_default_nodes_file: default_config['nodes'], reduced to "enabled"
DefaultNodes ==
    ("horos_workstation" :> [enabled |-> TRUE]) @@ ("pacs_server" :> [enabled |-> FALSE])

NoCatalogue == [results |-> <<>>, has_results |-> FALSE]

\* the polling thread between two ticks
IdleAf == [pc |-> "idle", tick |-> 0, api_data |-> NoCatalogue, enabled_nodes |-> {},
           i |-> 1, j |-> 1, new_series_count |-> 0, node |-> "", series |-> "",
           attempted |-> FALSE, outcome |-> "none",
           inp |-> [raises |-> FALSE, assoc |-> "", statuses |-> <<>>]]

\* NodeManager.__init__ on a storage directory without nodes.json and
\* without forwarding_tracking.json
InitAF ==
    /\ nodes = DefaultNodes
    /\ sent_tracking = <<>>
    /\ tracking_file = <<>>
    /\ af = IdleAf
    /\ admin_left = MaxAdminOps
    /\ acked = {}
    /\ failed = {}
    /\ tick_ok = {}
    /\ removed = {}

NoSend == [called |-> FALSE, assoc |-> "", statuses |-> <<>>, result |-> FALSE]

InitSend == send_call = NoSend

\* C-STORE handler threads of one study and the instances they are sent
StoreThreads == {"h1", "h2"}
Instances == {"1.2.1.1.1", "1.2.1.1.2", "1.2.1.1.3"}

InitUp ==
    /\ store_thread = [h \in StoreThreads |-> [pc |-> "idle", instance |-> ""]]
    /\ completion = [pc |-> "sleep", zip_file |-> {}]
    /\ study_activity = [last_activity |-> "none", active |-> FALSE]
    /\ study_dir = [exists |-> FALSE, files |-> {}]
    /\ upload_hist = [unsent |-> Instances, stored_ok |-> {}, uploaded |-> {}, deleted |-> {}]

\* files a retrieve request may match in local storage, and through the API
MaxMatch == 2

InitRetrieve == retrieve = [handler |-> "none", request |-> <<>>, yields |-> <<>>, api_consulted |-> FALSE]

InitFind == find = [handler |-> "none", request |-> <<>>, yields |-> <<>>]


MaxAssocStores == 3   \* C-STORE requests on the association

InitStoreErrors == assoc_stores = <<>>


MaxPidLen == 2   \* characters of a PatientID

InitPath == path_calls = <<>>


MaxLoginRetries == 3   \* ApiUploader.max_retries, the login attempts of one login()

InitAuth ==
    api_call = [op |-> "none", answers |-> <<>>, sent |-> <<>>, invalidated |-> FALSE,
                relogin_posts |-> 0, auth_token |-> 0, result |-> ""]


MaxSignals == 2   \* SIGINT/SIGTERM deliveries

\* the state start() leaves: the main thread in its join loop, the listener
\* thread serving, the monitor thread (started by StudyMonitor.__init__) in its
\* loop, the poller not started
InitProc ==
    proc = [main |-> "joining", listener |-> "serving", accepting |-> TRUE,
            monitor |-> "scan", poller |-> "not started",
            shutdown_event |-> FALSE, stop_event |-> FALSE, is_running |-> TRUE,
            af_is_running |-> FALSE, signals_left |-> MaxSignals]


MaxSavedStudies == 3   \* studies whose identity is added to the mapping, one save each

\* the mapping and its file after the anonymizer has loaded an empty mapping
\* file: a complete document with no study
InitSave ==
    map_save = [pc |-> "idle", mapping |-> {}, previous |-> {},
                disk |-> <<"{", "}">>, crashed |-> FALSE]


MaxRestarts == 2   \* process restarts

\* DicomAnonymizer.__init__ with no mapping file on disk
InitRestart ==
    idstore = [patient_name_map |-> <<>>, patient_counter |-> GetNextPatientCounter(<<>>),
               pc |-> "idle", disk |-> <<>>, issued |-> {},
               restarts_left |-> MaxRestarts]


MaxPasses == 2   \* passes of the monitor loop

\* StudyMonitor.study_complete_callbacks after two registrations
RegisteredCallbacks == <<"_study_complete_handler", "second_callback">>

InitCallbacks ==
    finalizer = [pc |-> "top", studies_to_finalize |-> <<>>, active_studies |-> {},
                 callback |-> 0, expected |-> {}, called |-> {}, raised |-> {},
                 logged |-> 0, raised_before |-> FALSE, passes_left |-> MaxPasses]


MaxPollCalls == 6   \* start_auto_forwarding / stop_auto_forwarding calls

\* NodeManager.__init__: is_running = False, polling_thread = None,
\* stop_event = threading.Event()
InitPolling ==
    polling = [is_running |-> FALSE, stop_event |-> FALSE, polling_thread |-> 0,
               threads |-> <<>>, caller |-> "idle", calls_left |-> MaxPollCalls]


NoDeanon == [called |-> FALSE, component |-> "", value |-> <<>>, result |-> <<>>,
             known |-> {}]

\* DicomQueryHandler.__init__ in a storage directory without a map file:
\* self.anonymizer = DicomAnonymizer(self.storage_dir) loads an empty map
InitQueryHandler ==
    query_handler = [patient_name_map |-> <<>>, last |-> NoDeanon]

Init ==
    /\ InitIS /\ InitConc /\ InitStore /\ InitQM /\ InitAF /\ InitSend /\ InitUp
    /\ InitRetrieve /\ InitFind /\ InitStoreErrors /\ InitPath /\ InitAuth /\ InitProc /\ InitSave /\ InitRestart /\ InitCallbacks /\ InitPolling /\ InitQueryHandler

(***************************************************************************)
(* The identity store called by one thread                                  *)
(***************************************************************************)
NextIS ==
    \/ \E ds \in ISDatasets : Anonymize(ds) /\ UNCHANGED <<concVars, storeVars, qmVars, restVars>>
    \/ Restore /\ UNCHANGED <<concVars, storeVars, qmVars, restVars>>

InitSeq == Init /\ timeout = 1

SpecIS == InitSeq /\ [][NextIS]_vars

\* the original PatientName of a dataset that carries a non-empty one
NameOf(ds) == PyStr(GetAttr(ds, "PatientName"))

\* ^sub-\d{3,}$
MatchesSubTag(t) ==
    /\ Len(t) >= Len(SubPrefix) + 3
    /\ SubSeq(t, 1, Len(SubPrefix)) = SubPrefix
    /\ \A i \in (Len(SubPrefix) + 1)..Len(t) : t[i] \in Digits

\* the number a tag carries after "sub-"
TagNumber(t) == ParseInt(SubSeq(t, Len(SubPrefix) + 1, Len(t)))

\* C1: once the name map holds X -> G, the entry stays as it is in every
\* step, and a step that anonymises a dataset carrying PatientName X
\* leaves G in that dataset's PatientName.
C1_NameTagIsStable ==
    [][\A x \in DOMAIN patient_name_map :
          /\ x \in DOMAIN patient_name_map'
          /\ patient_name_map'[x] = patient_name_map[x]
          /\ ( /\ last_call'.op = "anonymize_dataset"
               /\ IsProcessed(received', "PatientName")
               /\ NameOf(received') = x )
             => GetAttr(dataset', "PatientName") = <<patient_name_map[x]>>]_vars

\* C1 witness: the name seen first is anonymised again after a second name
\* got its tag, and the dataset carries the first name's tag.
C1_Witness ==
    /\ last_call.op = "anonymize_dataset"
    /\ Len(first_seen) >= 2
    /\ IsProcessed(received, "PatientName")
    /\ NameOf(received) = first_seen[1]
    /\ GetAttr(dataset, "PatientName") = <<patient_name_map[first_seen[1]]>>

\* C3: after restore(anonymise(D)) every PII field that anonymise processed
\* holds the value D came with, PatientID included.
C3_RoundTrip ==
    (last_call.op = "restore_dataset" /\ last_call.result)
    => \A tag \in PiiTagSet :
          IsProcessed(received, tag) =>
             /\ HasAttr(dataset, tag)
             /\ GetAttr(dataset, tag) = GetAttr(received, tag)

C5_SequentialTags ==
    /\ [](/\ DOMAIN patient_name_map = {first_seen[k] : k \in 1..Len(first_seen)}
          /\ \A k \in 1..Len(first_seen) :
                /\ MatchesSubTag(patient_name_map[first_seen[k]])
                /\ TagNumber(patient_name_map[first_seen[k]]) = k
          /\ patient_counter = Len(first_seen) + 1)
    /\ [][patient_counter' >= patient_counter]_vars

\* C5 witness: DOE^JOHN then ROE^JANE were anonymised, over both studies:
\* the map is {DOE^JOHN: sub-001, ROE^JANE: sub-002} and the counter is 3.
C5_Witness ==
    /\ first_seen = <<DOE_JOHN, ROE_JANE>>
    /\ patient_name_map[DOE_JOHN] = <<"s", "u", "b", "-", "0", "0", "1">>
    /\ patient_name_map[ROE_JANE] = <<"s", "u", "b", "-", "0", "0", "2">>
    /\ patient_counter = 3
    /\ DOMAIN patient_info_map = Studies

(***************************************************************************)
(* anonymize_dataset run by the C-STORE handlers of several associations.   *)
(* pynetdicom runs every association in a thread of its own; the            *)
(* interpreter may switch threads between any two statements.  Only         *)
(* _save_patient_info_map takes patient_map_lock.  A thread switch is       *)
(* modelled between the test and the assignment of "Initialize map if       *)
(* needed", between the statements of _get_anonymized_patient_name, between *)
(* the load and the store of "patient_counter += 1", and around the lock.   *)
(***************************************************************************)
ConcDatasets ==
    {ISDataset(study, Present(<<n>>), SparseFields) :
        study \in Studies, n \in {DOE_JOHN, ROE_JANE}}

\* anonymize_dataset entered: "study_uid = dataset.StudyInstanceUID"
ConcBegin(a, ds) ==
    /\ assoc[a].pc = "idle"
    /\ calls_left[a] > 0
    /\ calls_left' = [calls_left EXCEPT ![a] = @ - 1]
    /\ assoc' = [assoc EXCEPT ![a] = [IdleAssoc EXCEPT !.pc = "check_study", !.ds = ds]]
    /\ UNCHANGED <<patient_name_map, patient_counter, patient_info_map, map_file,
                   patient_map_lock, handed_out>>

\* "if study_uid not in self.patient_info_map"
ConcCheckStudy(a) ==
    /\ assoc[a].pc = "check_study"
    /\ assoc' = [assoc EXCEPT ![a].pc =
                    IF assoc[a].ds.StudyInstanceUID \in DOMAIN patient_info_map
                    THEN "loop" ELSE "set_study", ![a].i = 1]
    /\ UNCHANGED <<patient_name_map, patient_counter, patient_info_map, map_file,
                   patient_map_lock, calls_left, handed_out>>

\* "self.patient_info_map[study_uid] = {}"
ConcSetStudy(a) ==
    /\ assoc[a].pc = "set_study"
    /\ patient_info_map' =
          [s \in (DOMAIN patient_info_map) \cup {assoc[a].ds.StudyInstanceUID} |->
              IF s = assoc[a].ds.StudyInstanceUID THEN <<>> ELSE patient_info_map[s]]
    /\ assoc' = [assoc EXCEPT ![a].pc = "loop"]
    /\ UNCHANGED <<patient_name_map, patient_counter, map_file,
                   patient_map_lock, calls_left, handed_out>>

\* one iteration of "for tag in PII_TAGS" up to the call of
\* _get_anonymized_patient_name; the iteration of any other tag is completed
ConcLoop(a) ==
    /\ assoc[a].pc = "loop"
    /\ assoc[a].i <= Len(PII_TAGS)
    /\ LET tag == PII_TAGS[assoc[a].i]
           ds  == assoc[a].ds
       IN IF ~IsProcessed(ds, tag)
          THEN /\ assoc' = [assoc EXCEPT ![a].i = @ + 1]
               /\ UNCHANGED patient_info_map
          ELSE /\ patient_info_map' = RecordOriginal(patient_info_map, ds.StudyInstanceUID,
                                                     tag, PyStr(GetAttr(ds, tag)))
               /\ IF tag = "PatientName"
                  THEN assoc' = [assoc EXCEPT ![a].pc = "name_lookup",
                                              ![a].value = PyStr(GetAttr(ds, tag))]
                  ELSE assoc' = [assoc EXCEPT ![a].i = @ + 1,
                                   ![a].ds = SetAttr(ds, tag,
                                       FieldPolicy(tag, PyStr(GetAttr(ds, tag)), <<>>))]
    /\ UNCHANGED <<patient_name_map, patient_counter, map_file,
                   patient_map_lock, calls_left, handed_out>>

\* "if original_name in self.patient_name_map: return ..." and, on a hit,
\* the setattr that ends the iteration
ConcNameLookup(a) ==
    /\ assoc[a].pc = "name_lookup"
    /\ IF assoc[a].value \in DOMAIN patient_name_map
       THEN assoc' = [assoc EXCEPT ![a].pc = "loop", ![a].i = @ + 1,
                        ![a].ds = SetAttr(assoc[a].ds, "PatientName",
                                          patient_name_map[assoc[a].value])]
       ELSE assoc' = [assoc EXCEPT ![a].pc = "name_format"]
    /\ UNCHANGED <<patient_name_map, patient_counter, patient_info_map, map_file,
                   patient_map_lock, calls_left, handed_out>>

\* anon_name = f"sub-{self.patient_counter:03d}"
ConcNameFormat(a) ==
    /\ assoc[a].pc = "name_format"
    /\ assoc' = [assoc EXCEPT ![a].pc = "name_store",
                              ![a].anon_name = AnonName(patient_counter)]
    /\ handed_out' = Append(handed_out, patient_counter)
    /\ UNCHANGED <<patient_name_map, patient_counter, patient_info_map, map_file,
                   patient_map_lock, calls_left>>

\* self.patient_name_map[original_name] = anon_name
ConcNameStore(a) ==
    /\ assoc[a].pc = "name_store"
    /\ patient_name_map' =
          [n \in (DOMAIN patient_name_map) \cup {assoc[a].value} |->
              IF n = assoc[a].value THEN assoc[a].anon_name ELSE patient_name_map[n]]
    /\ assoc' = [assoc EXCEPT ![a].pc = "counter_load"]
    /\ UNCHANGED <<patient_counter, patient_info_map, map_file,
                   patient_map_lock, calls_left, handed_out>>

\* "self.patient_counter += 1": the load
ConcCounterLoad(a) ==
    /\ assoc[a].pc = "counter_load"
    /\ assoc' = [assoc EXCEPT ![a].pc = "counter_store", ![a].loaded = patient_counter]
    /\ UNCHANGED <<patient_name_map, patient_counter, patient_info_map, map_file,
                   patient_map_lock, calls_left, handed_out>>

\* "self.patient_counter += 1": the store, then the return and the setattr
ConcCounterStore(a) ==
    /\ assoc[a].pc = "counter_store"
    /\ patient_counter' = assoc[a].loaded + 1
    /\ assoc' = [assoc EXCEPT ![a].pc = "loop", ![a].i = @ + 1,
                     ![a].ds = SetAttr(assoc[a].ds, "PatientName", assoc[a].anon_name)]
    /\ UNCHANGED <<patient_name_map, patient_info_map, map_file,
                   patient_map_lock, calls_left, handed_out>>

\* the loop is over: _save_patient_info_map, "with self.patient_map_lock"
ConcAcquire(a) ==
    /\ assoc[a].pc = "loop"
    /\ assoc[a].i > Len(PII_TAGS)
    /\ patient_map_lock = NoThread
    /\ patient_map_lock' = a
    /\ assoc' = [assoc EXCEPT ![a].pc = "save"]
    /\ UNCHANGED <<patient_name_map, patient_counter, patient_info_map, map_file,
                   calls_left, handed_out>>

\* the file is written and the lock released; anonymize_dataset returns
ConcSave(a) ==
    /\ assoc[a].pc = "save"
    /\ patient_map_lock = a
    /\ map_file' = CombinedMap(patient_info_map, patient_name_map)
    /\ patient_map_lock' = NoThread
    /\ assoc' = [assoc EXCEPT ![a].pc = "idle"]
    /\ UNCHANGED <<patient_name_map, patient_counter, patient_info_map,
                   calls_left, handed_out>>

ConcStep(a) ==
    \/ \E ds \in ConcDatasets : ConcBegin(a, ds)
    \/ ConcCheckStudy(a)
    \/ ConcSetStudy(a)
    \/ ConcLoop(a)
    \/ ConcNameLookup(a)
    \/ ConcNameFormat(a)
    \/ ConcNameStore(a)
    \/ ConcCounterLoad(a)
    \/ ConcCounterStore(a)
    \/ ConcAcquire(a)
    \/ ConcSave(a)

NextConc ==
    \E a \in Assocs :
        ConcStep(a) /\ UNCHANGED <<dataset, received, last_call, first_seen,
                                   storeVars, qmVars, restVars>>

SpecConc == InitSeq /\ [][NextConc]_vars

\* C2: whatever the interleaving of the handlers' anonymise calls, two
\* distinct original names never hold the same tag and no counter value is
\* formatted into a tag twice.
C2_BijectiveUnderInterleaving ==
    /\ \A x, y \in DOMAIN patient_name_map :
          x /= y => patient_name_map[x] /= patient_name_map[y]
    /\ \A i, j \in 1..Len(handed_out) : i /= j => handed_out[i] /= handed_out[j]

(***************************************************************************)
(* DicomStorage.get_file_path and the two C-STORE handlers                  *)
(***************************************************************************)
Letters ==
    {"A", "B", "C", "D", "E", "F", "G", "H", "I", "J", "K", "L", "M",
     "N", "O", "P", "Q", "R", "S", "T", "U", "V", "W", "X", "Y", "Z",
     "a", "b", "c", "d", "e", "f", "g", "h", "i", "j", "k", "l", "m",
     "n", "o", "p", "q", "r", "s", "t", "u", "v", "w", "x", "y", "z"}

\* characters outside ASCII for which str.isalnum() is true, by one of them
OtherAlnum == {"é"}

\* c.isalnum() or c in "._- "
IsPathChar(c) == c \in Letters \cup Digits \cup OtherAlnum \cup {".", "_", "-", " "}

RECURSIVE Filter(_)
Filter(s) ==
    IF Len(s) = 0 THEN <<>>
    ELSE (IF IsPathChar(s[1]) THEN <<s[1]>> ELSE <<>>) \o Filter(Tail(s))

\* no strip() at all
NoStrip(s) == s

RECURSIVE Strip(_)
\* str.strip() of a string whose only whitespace is the space
Strip(s) ==
    IF Len(s) = 0 THEN s
    ELSE IF s[1] = " " THEN Strip(Tail(s))
    ELSE IF s[Len(s)] = " " THEN Strip(SubSeq(s, 1, Len(s) - 1))
    ELSE s

UNKNOWN == <<"u", "n", "k", "n", "o", "w", "n">>

\* the patient directory get_file_path derives from the dataset
PatientDir(ds) ==
    IF ~HasAttr(ds, "PatientID") THEN UNKNOWN
    ELSE LET clean == Strip(Filter(PyStr(GetAttr(ds, "PatientID"))))
         IN IF Len(clean) = 0 THEN UNKNOWN ELSE clean

\* the path get_file_path returns, below the storage directory:
\* <patient>/<study>/<series>/scans/<instance>.dcm
FilePath(ds) ==
    <<PatientDir(ds), ds.StudyInstanceUID, ds.SeriesInstanceUID, "scans",
      <<ds.SOPInstanceUID, ".dcm">>>>

\* DicomStorage.patient_study_map after get_file_path
AddPatientStudy(map, ds) ==
    IF ~HasAttr(ds, "PatientID") THEN map
    ELSE [p \in (DOMAIN map) \cup {PatientDir(ds)} |->
            (IF p \in DOMAIN map THEN map[p] ELSE {})
            \cup (IF p = PatientDir(ds) THEN {ds.StudyInstanceUID} ELSE {})]

ImplicitVRLittleEndian == "1.2.840.10008.1.2"
ExplicitVRLittleEndian == "1.2.840.10008.1.2.1"

SetMeta(meta, key, v) ==
    [k \in (DOMAIN meta) \cup {key} |-> IF k = key THEN v ELSE meta[k]]

\* "Fix patient name format": "sub-002" becomes "sub-002^"
FixPatientName(ds) ==
    IF HasAttr(ds, "PatientName")
       /\ StartsWith(PyStr(GetAttr(ds, "PatientName")), SubPrefix)
       /\ ~Contains(PyStr(GetAttr(ds, "PatientName")), "^")
    THEN SetAttr(ds, "PatientName", PyStr(GetAttr(ds, "PatientName")) \o <<"^">>)
    ELSE ds

\* StoreHandler._fix_dicom_file_metadata: the body of its try block; the
\* read of dataset.SOPClassUID raises when the element is absent, and the
\* except clause then leaves the remaining statements out
FixDicomFileMetadata(ds) ==
    LET preferred == IF "TransferSyntaxUID" \in DOMAIN ds.file_meta
                     THEN ds.file_meta["TransferSyntaxUID"]
                     ELSE ExplicitVRLittleEndian
        d1 == [ds EXCEPT
                 !.preamble = IF ds.preamble = "" THEN "128 zero bytes" ELSE @,
                 !.file_meta = SetMeta(ds.file_meta, "TransferSyntaxUID", preferred),
                 !.is_little_endian =
                     IF preferred \in {ImplicitVRLittleEndian, ExplicitVRLittleEndian}
                     THEN "True" ELSE "False",
                 !.is_implicit_VR =
                     IF preferred = ImplicitVRLittleEndian THEN "True" ELSE "False"]
    IN IF ~HasAttr(ds, "SOPClassUID") THEN d1
       ELSE FixPatientName(
              [d1 EXCEPT !.file_meta =
                 SetMeta(SetMeta(SetMeta(SetMeta(SetMeta(d1.file_meta,
                    "MediaStorageSOPClassUID", PyStr(GetAttr(ds, "SOPClassUID"))),
                    "MediaStorageSOPInstanceUID", ds.SOPInstanceUID),
                    "ImplementationClassUID", "PYDICOM_IMPLEMENTATION_UID"),
                    "ImplementationVersionName", "PYDICOM"),
                    "FileMetaInformationVersion", "\\x00\\x01")])

\* study_last_activity is a dict in insertion order: a sequence of entries
DictHas(d, key) == \E i \in 1..Len(d) : d[i].study = key

\* d[key] = age: an existing key keeps its place, a new one goes last
DictSet(d, key, age) ==
    IF DictHas(d, key)
    THEN [i \in 1..Len(d) |-> IF d[i].study = key THEN [study |-> key, age |-> age] ELSE d[i]]
    ELSE Append(d, [study |-> key, age |-> age])

\* a slip: update_study_activity without active_studies.add
AddActiveMissing(active, study) == active

\* update_study_activity: "self.active_studies.add(study_uid)"
AddActive(active, study) == active \cup {study}

\* history: the age of the timestamp of the latest update_study_activity
\* that has taken effect
Touched(ages, study, age) ==
    [s \in (DOMAIN ages) \cup {study} |-> IF s = study THEN age ELSE ages[s]]

CT_IMAGE_STORAGE == <<"1", ".", "2", ".", "8", "4", "0", ".", "1", "0", "0", "0", "8",
                      ".", "5", ".", "1", ".", "4", ".", "1", ".", "1", ".", "2">>

StoreDataset(study, sop, pn, pid, sopclass, ts) ==
    MkDataset(study, "1.2.1.1", sop,
              ("PatientName" :> pn) @@ ("PatientID" :> pid)
              @@ ("PatientBirthDate" :> Present(<<BIRTH_DATE>>))
              @@ ("SOPClassUID" :> sopclass) @@ ("Modality" :> Present(<<CT>>)), ts)

\* the datasets sent by C-STORE: two names over two studies, and one dataset
\* each without a PatientName, with a PatientID that needs sanitising,
\* without a SOPClassUID, and with a file meta of its own
StoreDatasets ==
    {StoreDataset(study, "1.2.1.1.1", Present(<<n>>), Present(<<PID_1>>),
                  Present(<<CT_IMAGE_STORAGE>>), "") :
        study \in Studies, n \in {DOE_JOHN, ROE_JANE}}
    \cup {StoreDataset("1.2.1", "1.2.1.1.2", Absent, Present(<<PID_1>>),
                       Present(<<CT_IMAGE_STORAGE>>), ""),
          StoreDataset("1.2.1", "1.2.1.1.2", Present(<<ROE_JANE>>),
                       Present(<<<<" ", "p", "/", "2", " ">>>>),
                       Present(<<CT_IMAGE_STORAGE>>), ""),
          StoreDataset("1.2.2", "1.2.1.1.2", Present(<<ROE_JANE>>), Present(<<PID_1>>),
                       Absent, ""),
          StoreDataset("1.2.2", "1.2.1.1.3", Present(<<DOE_JOHN>>), Present(<<PID_1>>),
                       Present(<<CT_IMAGE_STORAGE>>), ImplicitVRLittleEndian)}

\* what both handlers do: update_study_activity, get_file_path,
\* encrypt_dataset (anonymize_dataset), the fix-up of the handler, save_as,
\* and the status 0x0000
Store(handler, ds, fixed) ==
    /\ stores < MaxStores
    /\ stores' = stores + 1
    /\ study_monitor_lock = NoThread
    /\ study_last_activity' = DictSet(study_last_activity, ds.StudyInstanceUID, 0)
    /\ active_studies' = AddActive(active_studies, ds.StudyInstanceUID)
    /\ since_touch' = Touched(since_touch, ds.StudyInstanceUID, 0)
    /\ pending' = [pending EXCEPT ![ds.StudyInstanceUID] = TRUE]
    /\ invoked' = [invoked EXCEPT ![ds.StudyInstanceUID] = [c \in DOMAIN @ |-> 0]]
    /\ patient_study_map' = AddPatientStudy(patient_study_map, ds)
    /\ Anonymize(ds)
    /\ files' = [f \in (DOMAIN files) \cup {FilePath(ds)} |->
                    IF f = FilePath(ds) THEN fixed ELSE files[f]]
    /\ last_store' = [handler |-> handler, path |-> FilePath(ds), status |-> 0]
    /\ UNCHANGED <<concVars, timeout, study_monitor_lock, monitor, toucher,
                   touches_left, fired, restVars>>

\* DicomServiceProvider._handle_store (core/scp.py), the handler bound to
\* EVT_C_STORE
ScpHandleStore(ds) == Store("DicomServiceProvider._handle_store", ds, dataset')

\* StoreHandler.handle_store (core/handlers/store_handler.py)
HandleStore(ds) == Store("StoreHandler.handle_store", ds, FixDicomFileMetadata(dataset'))

NextStore ==
    \/ \E ds \in StoreDatasets : ScpHandleStore(ds)
    \/ \E ds \in StoreDatasets : HandleStore(ds)

SpecStore == InitSeq /\ [][NextStore]_vars

\* C6: after a successful C-STORE of a dataset with a PatientName, the
\* PatientName in the file written is exactly the tag the name map holds for
\* the original name.
C6_StoredNameIsTag ==
    (last_store.status = 0 /\ IsProcessed(received, "PatientName")) =>
       /\ last_store.path \in DOMAIN files
       /\ GetAttr(files[last_store.path], "PatientName")
             = <<patient_name_map[NameOf(received)]>>

(***************************************************************************)
(* StudyMonitor (core/storage.py): the monitor thread and the C-STORE       *)
(* threads inside update_study_activity.  Time is counted in seconds, the   *)
(* period of the monitor loop.  A timestamp is held as the seconds elapsed  *)
(* since it was taken, so "current_time - last_activity" is the age of the  *)
(* stored timestamp less the age of current_time.  Statements take no time; *)
(* time passes while the monitor sleeps or a completion callback runs.      *)
(***************************************************************************)
AgeCap == MaxTimeout + MaxCallbackTime + 2

Older(n) == IF n < AgeCap THEN n + 1 ELSE n

\* "if current_time - last_activity > self.timeout"
TimedOut(age, current_time_age, t) == age - current_time_age > t

RECURSIVE Expired(_, _, _)
\* the studies the scan appends to studies_to_finalize, in dict order
Expired(d, current_time_age, t) ==
    IF Len(d) = 0 THEN <<>>
    ELSE (IF TimedOut(d[1].age, current_time_age, t) THEN <<d[1].study>> ELSE <<>>)
         \o Expired(Tail(d), current_time_age, t)

RECURSIVE Remaining(_, _, _)
\* study_last_activity after the scan popped the expired studies
Remaining(d, current_time_age, t) ==
    IF Len(d) = 0 THEN <<>>
    ELSE (IF TimedOut(d[1].age, current_time_age, t) THEN <<>> ELSE <<d[1]>>)
         \o Remaining(Tail(d), current_time_age, t)

\* a slip: _finalize_study without the membership test
FinalizeInvokesAlways(study, active) == TRUE

\* _finalize_study: "if study_uid in self.active_studies"
FinalizeInvokes(study, active) == study \in active

\* update_study_activity entered: "now = time.time()"
TouchCall(a, s) ==
    /\ toucher[a].pc = "idle"
    /\ touches_left > 0
    /\ touches_left' = touches_left - 1
    /\ toucher' = [toucher EXCEPT ![a] = [pc |-> "wait_lock", study |-> s, now |-> 0]]
    /\ UNCHANGED <<timeout, study_last_activity, active_studies, study_monitor_lock,
                   monitor, since_touch, pending, invoked, fired>>

\* "with self.study_monitor_lock": the timestamp is stored, the study is
\* made active, and the lock is released
TouchStore(a) ==
    /\ toucher[a].pc = "wait_lock"
    /\ study_monitor_lock = NoThread
    /\ study_last_activity' = DictSet(study_last_activity, toucher[a].study, toucher[a].now)
    /\ active_studies' = AddActive(active_studies, toucher[a].study)
    /\ toucher' = [toucher EXCEPT ![a] = IdleToucher]
    /\ pending' = [pending EXCEPT ![toucher[a].study] = TRUE]
    /\ invoked' = [invoked EXCEPT ![toucher[a].study] = [c \in DOMAIN @ |-> 0]]
    /\ since_touch' = Touched(since_touch, toucher[a].study, toucher[a].now)
    /\ UNCHANGED <<timeout, study_monitor_lock, monitor, touches_left, fired>>

\* the top of the loop: "current_time = time.time()"
MonitorReadTime ==
    /\ monitor.pc = "top"
    /\ monitor' = [monitor EXCEPT !.pc = "scan", !.current_time = 0,
                                  !.studies_to_finalize = <<>>]
    /\ UNCHANGED <<timeout, study_last_activity, active_studies, study_monitor_lock,
                   toucher, touches_left, since_touch, pending, invoked, fired>>

\* the scan under the lock: expired studies are listed and popped
MonitorScan ==
    /\ monitor.pc = "scan"
    /\ study_monitor_lock = NoThread
    /\ LET list == Expired(study_last_activity, monitor.current_time, timeout)
       IN /\ study_last_activity' =
                Remaining(study_last_activity, monitor.current_time, timeout)
          /\ monitor' = [monitor EXCEPT !.studies_to_finalize = list,
                            !.pc = IF Len(list) > 0 THEN "finalize" ELSE "sleep",
                            !.sleep = IF Len(list) > 0 THEN 0 ELSE 1]
    /\ UNCHANGED <<timeout, active_studies, study_monitor_lock,
                   toucher, touches_left, since_touch, pending, invoked, fired>>

\* history: callback c is invoked for study s
Invocation(s, c) ==
    /\ fired' = [study |-> s, callback |-> c,
                 since_touch |-> IF s \in DOMAIN since_touch THEN since_touch[s] ELSE AgeCap]
    /\ pending' = [pending EXCEPT ![s] = FALSE]
    /\ invoked' = [invoked EXCEPT ![s][c] = IF @ < 2 THEN @ + 1 ELSE @]

\* the monitor moves on from the study at the head of studies_to_finalize
NextStudy(m) ==
    [m EXCEPT !.studies_to_finalize = Tail(@), !.callback = 0, !.busy = 0,
              !.pc = IF Len(m.studies_to_finalize) > 1 THEN "finalize" ELSE "sleep",
              !.sleep = IF Len(m.studies_to_finalize) > 1 THEN 0 ELSE 1]

\* _finalize_study(study_uid) up to the first callback: the lock is taken;
\* an active study is removed from active_studies and the first callback is
\* called with the lock held; otherwise the lock is released at once
MonitorFinalize ==
    /\ monitor.pc = "finalize"
    /\ study_monitor_lock = NoThread
    /\ LET s == Head(monitor.studies_to_finalize)
       IN IF FinalizeInvokes(s, active_studies) /\ Len(Callbacks) > 0
          THEN /\ active_studies' = active_studies \ {s}
               /\ study_monitor_lock' = "monitor"
               /\ \E d \in 0..MaxCallbackTime :
                     monitor' = [monitor EXCEPT !.pc = "callback", !.callback = 1,
                                                !.busy = d]
               /\ Invocation(s, 1)
          ELSE /\ active_studies' = active_studies \ {s}
               /\ monitor' = NextStudy(monitor)
               /\ UNCHANGED <<study_monitor_lock, pending, invoked, fired>>
    /\ UNCHANGED <<timeout, study_last_activity, toucher, touches_left, since_touch>>

\* a callback returns (or raises, which is caught and logged): the next
\* callback is called, or the lock is released and the loop goes on
MonitorCallbackReturn ==
    /\ monitor.pc = "callback"
    /\ monitor.busy = 0
    /\ IF monitor.callback < Len(Callbacks)
       THEN /\ \E d \in 0..MaxCallbackTime :
                  monitor' = [monitor EXCEPT !.callback = @ + 1, !.busy = d]
            /\ Invocation(Head(monitor.studies_to_finalize), monitor.callback + 1)
            /\ UNCHANGED study_monitor_lock
       ELSE /\ monitor' = NextStudy(monitor)
            /\ study_monitor_lock' = NoThread
            /\ UNCHANGED <<pending, invoked, fired>>
    /\ UNCHANGED <<timeout, study_last_activity, active_studies,
                   toucher, touches_left, since_touch>>

\* time.sleep(1) is over
MonitorWake ==
    /\ monitor.pc = "sleep"
    /\ monitor.sleep = 0
    /\ monitor' = [monitor EXCEPT !.pc = "top"]
    /\ UNCHANGED <<timeout, study_last_activity, active_studies, study_monitor_lock,
                   toucher, touches_left, since_touch, pending, invoked, fired>>

\* one second passes: the monitor sleeps or a callback runs, and no thread
\* has a statement it can execute at once
Tick ==
    /\ \/ monitor.pc = "sleep" /\ monitor.sleep > 0
       \/ monitor.pc = "callback" /\ monitor.busy > 0
    /\ \A a \in Assocs : ~(toucher[a].pc = "wait_lock" /\ study_monitor_lock = NoThread)
    /\ monitor' = [monitor EXCEPT
                      !.sleep = IF monitor.pc = "sleep" THEN @ - 1 ELSE @,
                      !.busy = IF monitor.pc = "callback" THEN @ - 1 ELSE @,
                      !.current_time = Older(@)]
    /\ study_last_activity' =
          [i \in 1..Len(study_last_activity) |->
              [study_last_activity[i] EXCEPT !.age = Older(@)]]
    /\ toucher' = [a \in Assocs |->
                      IF toucher[a].pc = "wait_lock"
                      THEN [toucher[a] EXCEPT !.now = Older(@)] ELSE toucher[a]]
    /\ since_touch' = [s \in DOMAIN since_touch |-> Older(since_touch[s])]
    /\ UNCHANGED <<timeout, active_studies, study_monitor_lock, touches_left,
                   pending, invoked, fired>>

MonitorStep ==
    \/ MonitorReadTime
    \/ MonitorScan
    \/ MonitorFinalize
    \/ MonitorCallbackReturn
    \/ MonitorWake

TouchStep == \E a \in Assocs : TouchStore(a)

NextQM ==
    \/ \E a \in Assocs, s \in Studies :
          TouchCall(a, s) /\ UNCHANGED <<isVars, concVars, storeVars, restVars>>
    \/ TouchStep /\ UNCHANGED <<isVars, concVars, storeVars, restVars>>
    \/ MonitorStep /\ UNCHANGED <<isVars, concVars, storeVars, restVars>>
    \/ Tick /\ UNCHANGED <<isVars, concVars, storeVars, restVars>>

SpecQM == Init /\ [][NextQM]_vars

\* the monitor thread and the handler threads are scheduled, callbacks
\* return, and time passes
SpecQMFair ==
    /\ SpecQM
    /\ WF_vars(MonitorStep /\ UNCHANGED <<isVars, concVars, storeVars, restVars>>)
    /\ WF_vars(TouchStep /\ UNCHANGED <<isVars, concVars, storeVars, restVars>>)
    /\ WF_vars(Tick /\ UNCHANGED <<isVars, concVars, storeVars, restVars>>)

\* C7: a touch of S that has taken effect is followed by an invocation of
\* the completion callback for S, whatever the interleaving of the handlers
\* with the monitor loop.
C7_TouchLeadsToCallback == \A s \in Studies : pending[s] ~> ~pending[s]

\* C7 witness: a touch of S took effect between the scan that removed S's
\* timestamp and _finalize_study(S), and the callback for S was invoked after
\* it: S has a timestamp again, is not active, and owes no callback.
C7_Witness ==
    /\ fired.study /= ""
    /\ ~pending[fired.study]
    /\ fired.since_touch <= timeout
    /\ DictHas(study_last_activity, fired.study)
    /\ fired.study \notin active_studies

\* C8: when the completion callback for S is invoked, the latest
\* update_study_activity(S) is at least the timeout old.
C8_NoCallbackBeforeTimeout ==
    fired.study /= "" => fired.since_touch >= timeout

\* C9: between two touches of S that take effect, each registered callback
\* is invoked for S at most once.
C9_AtMostOncePerActivation ==
    \A s \in Studies : \A c \in 1..Len(Callbacks) : invoked[s][c] <= 1

\* C9 witness: the callback for S was invoked once, S stayed idle for long
\* after it, and the monitor is in a later pass with no timestamp for S.
C9_Witness ==
    \E s \in Studies :
       /\ invoked[s][1] = 1
       /\ s \in DOMAIN since_touch
       /\ since_touch[s] = AgeCap
       /\ monitor.pc = "scan"
       /\ ~DictHas(study_last_activity, s)
       /\ s \notin active_studies

\* C10: the completion callback for S is invoked no later than one polling
\* period (1 s) after the timeout has elapsed since the last touch of S.
C10_CallbackWithinOnePeriod ==
    fired.study /= "" => fired.since_touch <= timeout + 1

(***************************************************************************)
(* NodeManager (core/node_manager.py): the forwarding ledger, the tick of   *)
(* the polling thread and the management calls.  The nested loops of        *)
(* _check_and_forward_new_series over results, studies and series are one   *)
(* sequence of catalogue entries; the loop over the enabled nodes is the    *)
(* inner loop.  The timestamp of a ledger entry is left out: the ledger     *)
(* maps a node to the set of series marked as sent.                         *)
(***************************************************************************)
Y1 == "1.2.1.1"
Y2 == "1.2.1.2"

\* api_data['results'][..]['dicom_data']['studies'][study]['series'][series]
CatalogueEntry(r, st, se) == [kind |-> "series", result |-> r, study |-> st, series |-> se]

\* a result item with 'dicom_data' and 'studies' but no 'result' key:
\* result_item['result']['id'] raises KeyError
MalformedEntry == [kind |-> "raises", result |-> "", study |-> "", series |-> ""]

Catalogue(entries) == [results |-> entries, has_results |-> TRUE]

\* what query_all_metadata returns on a tick: nothing, or series Y1 once,
\* under two results, under two studies, next to Y2, or next to an item that
\* raises
Catalogues ==
    {NoCatalogue,
     Catalogue(<<CatalogueEntry("r1", "1.2.1", Y1)>>),
     Catalogue(<<CatalogueEntry("r1", "1.2.1", Y1), CatalogueEntry("r2", "1.2.1", Y1)>>),
     Catalogue(<<CatalogueEntry("r1", "1.2.1", Y1), CatalogueEntry("r1", "1.2.2", Y1)>>),
     Catalogue(<<CatalogueEntry("r1", "1.2.1", Y1), CatalogueEntry("r1", "1.2.1", Y2)>>),
     Catalogue(<<CatalogueEntry("r1", "1.2.1", Y1), MalformedEntry>>),
     Catalogue(<<MalformedEntry, CatalogueEntry("r1", "1.2.1", Y1)>>)}

SeriesOf(api_data) ==
    {api_data.results[i].series :
        i \in {k \in 1..Len(api_data.results) : api_data.results[k].kind = "series"}}

\* what send_c_store gives for one file: a status 0x0000, another status, no
\* response, or an exception
FileOutcomes  == {"0x0000", "0xA700", "no response", "exception"}
\* what ae.associate gives
AssocOutcomes == {"established", "rejected", "raises"}

RECURSIVE SuccessCount(_)
\* success_count after the loop over the files
SuccessCount(statuses) ==
    IF Len(statuses) = 0 THEN 0
    ELSE (IF Head(statuses) = "0x0000" THEN 1 ELSE 0) + SuccessCount(Tail(statuses))

\* a slip: more than 80%
MeetsThresholdStrict(success_count, total_files) == success_count * 10 > total_files * 8

\* "return success_count >= (total_files * 0.8)"; the float product equals
\* 8 * total_files / 10 wherever the comparison with an integer can tell
MeetsThreshold(success_count, total_files) == success_count * 10 >= total_files * 8

\* a slip: the files are counted without the is_established test
SendFilesToNodeAnyAssoc(assoc_outcome, statuses) ==
    MeetsThreshold(SuccessCount(statuses), Len(statuses))

\* NodeManager._send_files_to_node(file_data_list, node_config)
SendFilesToNode(assoc_outcome, statuses) ==
    IF assoc_outcome /= "established" THEN FALSE
    ELSE MeetsThreshold(SuccessCount(statuses), Len(statuses))

\* what happens in one _forward_series_to_node call (kept in af.inp as the
\* locals of the last call): an exception or not,
\* the association, and one send_c_store outcome per downloaded file
Fwd(raises, assoc_outcome, statuses) ==
    [raises |-> raises, assoc |-> assoc_outcome, statuses |-> statuses]

ForwardInputs ==
    {Fwd(TRUE, "established", <<>>),
     Fwd(FALSE, "established", <<>>),
     Fwd(FALSE, "rejected", <<"0x0000">>),
     Fwd(FALSE, "established", <<"0x0000">>),
     Fwd(FALSE, "established", <<"0x0000", "0x0000", "0xA700", "0x0000", "0x0000">>),
     Fwd(FALSE, "established", <<"0x0000", "no response", "0xA700", "0x0000", "0x0000">>)}

\* NodeManager._forward_series_to_node
ForwardSeriesToNode(inp) ==
    IF inp.raises THEN FALSE
    ELSE IF Len(inp.statuses) = 0 THEN FALSE
    ELSE SendFilesToNode(inp.assoc, inp.statuses)

\* history: why a forward failed
FailureCause(inp) ==
    IF inp.raises THEN "exception"
    ELSE IF Len(inp.statuses) = 0 THEN "no files"
    ELSE IF inp.assoc /= "established" THEN "no association"
    ELSE "below 80%"

\* a slip: the series is looked up at the top level of the ledger
IsSeriesSentWrongKey(tracking, node_id, series_uid) == series_uid \in DOMAIN tracking

\* NodeManager._is_series_sent
IsSeriesSent(tracking, node_id, series_uid) ==
    node_id \in DOMAIN tracking /\ series_uid \in tracking[node_id]

\* NodeManager._mark_series_sent
MarkSeriesSent(tracking, node_id, series_uid) ==
    [n \in (DOMAIN tracking) \cup {node_id} |->
        (IF n \in DOMAIN tracking THEN tracking[n] ELSE {})
        \cup (IF n = node_id THEN {series_uid} ELSE {})]

\* del d[k]
DelKey(d, k) == [n \in (DOMAIN d) \ {k} |-> d[n]]

\* NodeManager.get_enabled_nodes
GetEnabledNodes(ns) == {n \in DOMAIN ns : ns[n].enabled}

\* a slip: the series is marked whatever the forward returned
MarksSentAlways(success) == TRUE

\* "if self._forward_series_to_node(...): self._mark_series_sent(...)"
MarksSent(success) == success

\* history: the pairs of a set that belong to other nodes
WithoutNode(pairs, node_id) == {p \in pairs : p[1] /= node_id}

\* _polling_loop wakes up and _check_and_forward_new_series starts: the
\* catalogue is queried and the enabled nodes are listed
AfTick(api_data) ==
    /\ af.pc = "idle"
    /\ af.tick < MaxTicks
    /\ LET enabled_nodes == GetEnabledNodes(nodes)
           begun == [IdleAf EXCEPT !.tick = af.tick + 1, !.api_data = api_data,
                                   !.enabled_nodes = enabled_nodes]
       IN af' = IF ~api_data.has_results THEN [begun EXCEPT !.outcome = "no data"]
                ELSE IF enabled_nodes = {} THEN [begun EXCEPT !.outcome = "no nodes"]
                ELSE [begun EXCEPT !.pc = "loop"]
    /\ tick_ok' = {}
    /\ UNCHANGED <<nodes, sent_tracking, tracking_file, admin_left, acked, failed, removed>>

\* one step of the loops: the end of the tick (with _save_tracking when a
\* series was forwarded), an item that raises (caught at the end of
\* _check_and_forward_new_series, which returns without saving), the next
\* entry, the next node, or a series that has to be forwarded
AfLoop ==
    /\ af.pc = "loop"
    /\ LET results == af.api_data.results
       IN IF af.i > Len(results)
          THEN /\ af' = [af EXCEPT !.pc = "idle", !.outcome = "completed"]
               /\ tracking_file' = IF af.new_series_count > 0 THEN sent_tracking
                                   ELSE tracking_file
          ELSE /\ UNCHANGED tracking_file
               /\ af' = IF results[af.i].kind = "raises"
                        THEN [af EXCEPT !.pc = "idle", !.outcome = "raised"]
                        ELSE IF af.j > Len(NodeOrder)
                        THEN [af EXCEPT !.i = @ + 1, !.j = 1]
                        ELSE IF NodeOrder[af.j] \notin af.enabled_nodes
                                \/ IsSeriesSent(sent_tracking, NodeOrder[af.j],
                                                results[af.i].series)
                        THEN [af EXCEPT !.j = @ + 1]
                        ELSE [af EXCEPT !.pc = "forward", !.node = NodeOrder[af.j],
                                        !.series = results[af.i].series]
    /\ UNCHANGED <<nodes, sent_tracking, admin_left, acked, failed, tick_ok, removed>>

\* _forward_series_to_node returns and, on success, the series is marked
AfForward(inp) ==
    /\ af.pc = "forward"
    /\ LET success == ForwardSeriesToNode(inp)
           pair    == <<af.node, af.series>>
       IN /\ sent_tracking' = IF MarksSent(success)
                              THEN MarkSeriesSent(sent_tracking, af.node, af.series)
                              ELSE sent_tracking
          /\ af' = [af EXCEPT !.pc = "loop", !.j = @ + 1, !.attempted = TRUE, !.inp = inp,
                       !.new_series_count = IF MarksSent(success) THEN @ + 1 ELSE @]
          /\ acked' = IF success THEN acked \cup {pair} ELSE acked
          /\ tick_ok' = IF success THEN tick_ok \cup {pair} ELSE tick_ok
          /\ failed' = {f \in failed : <<f.node, f.series>> /= pair}
                       \cup (IF success THEN {}
                             ELSE {[node |-> af.node, series |-> af.series,
                                    tick |-> af.tick, cause |-> FailureCause(inp)]})
    /\ UNCHANGED <<nodes, tracking_file, admin_left, removed>>

\* NodeManager.add_node(node_id, ..., enabled)
AddNode(node_id, enabled) ==
    /\ admin_left > 0
    /\ admin_left' = admin_left - 1
    /\ nodes' = [n \in (DOMAIN nodes) \cup {node_id} |->
                    IF n = node_id THEN [enabled |-> enabled] ELSE nodes[n]]
    /\ removed' = removed \ {node_id}
    /\ UNCHANGED <<sent_tracking, tracking_file, af, acked, failed, tick_ok>>

\* NodeManager.remove_node(node_id)
RemoveNode(node_id) ==
    /\ admin_left > 0
    /\ admin_left' = admin_left - 1
    /\ removed' = removed \cup {node_id}
    /\ IF node_id \in DOMAIN nodes
       THEN /\ nodes' = DelKey(nodes, node_id)
            /\ IF node_id \in DOMAIN sent_tracking
               THEN /\ sent_tracking' = DelKey(sent_tracking, node_id)
                    /\ tracking_file' = DelKey(sent_tracking, node_id)
                    /\ acked' = WithoutNode(acked, node_id)
                    /\ tick_ok' = WithoutNode(tick_ok, node_id)
               ELSE UNCHANGED <<sent_tracking, tracking_file, acked, tick_ok>>
       ELSE UNCHANGED <<nodes, sent_tracking, tracking_file, acked, tick_ok>>
    /\ UNCHANGED <<af, failed>>

\* NodeManager.clear_tracking_for_node(node_id)
ClearTrackingForNode(node_id) ==
    /\ admin_left > 0
    /\ admin_left' = admin_left - 1
    /\ IF node_id \in DOMAIN sent_tracking
       THEN /\ sent_tracking' = DelKey(sent_tracking, node_id)
            /\ tracking_file' = DelKey(sent_tracking, node_id)
            /\ acked' = WithoutNode(acked, node_id)
            /\ tick_ok' = WithoutNode(tick_ok, node_id)
       ELSE UNCHANGED <<sent_tracking, tracking_file, acked, tick_ok>>
    /\ UNCHANGED <<nodes, af, failed, removed>>

\* NodeManager.clear_all_tracking
ClearAllTracking ==
    /\ admin_left > 0
    /\ admin_left' = admin_left - 1
    /\ sent_tracking' = <<>>
    /\ tracking_file' = <<>>
    /\ acked' = {}
    /\ tick_ok' = {}
    /\ UNCHANGED <<nodes, af, failed, removed>>

\* the process ends between two ticks and starts again: NodeManager.__init__
\* with _load_tracking reading forwarding_tracking.json
AfRestart ==
    /\ admin_left > 0
    /\ admin_left' = admin_left - 1
    /\ af.pc = "idle"
    /\ sent_tracking' = tracking_file
    /\ af' = [IdleAf EXCEPT !.tick = af.tick]
    /\ acked' = {}
    /\ UNCHANGED <<nodes, tracking_file, failed, tick_ok, removed>>

NextAF ==
    \/ \E api_data \in Catalogues :
          AfTick(api_data) /\ UNCHANGED <<isVars, concVars, storeVars, qmVars, sendVars, upVars, qrVars, findVars, seVars, pathVars, authVars, procVars, saveVars, rsVars, cbVars, pollVars, qhVars>>
    \/ AfLoop /\ UNCHANGED <<isVars, concVars, storeVars, qmVars, sendVars, upVars, qrVars, findVars, seVars, pathVars, authVars, procVars, saveVars, rsVars, cbVars, pollVars, qhVars>>
    \/ \E inp \in ForwardInputs :
          AfForward(inp) /\ UNCHANGED <<isVars, concVars, storeVars, qmVars, sendVars, upVars, qrVars, findVars, seVars, pathVars, authVars, procVars, saveVars, rsVars, cbVars, pollVars, qhVars>>
    \/ \E n \in NodeIds, enabled \in BOOLEAN :
          AddNode(n, enabled) /\ UNCHANGED <<isVars, concVars, storeVars, qmVars, sendVars, upVars, qrVars, findVars, seVars, pathVars, authVars, procVars, saveVars, rsVars, cbVars, pollVars, qhVars>>
    \/ \E n \in NodeIds :
          RemoveNode(n) /\ UNCHANGED <<isVars, concVars, storeVars, qmVars, sendVars, upVars, qrVars, findVars, seVars, pathVars, authVars, procVars, saveVars, rsVars, cbVars, pollVars, qhVars>>
    \/ \E n \in NodeIds :
          ClearTrackingForNode(n)
          /\ UNCHANGED <<isVars, concVars, storeVars, qmVars, sendVars, upVars, qrVars, findVars, seVars, pathVars, authVars, procVars, saveVars, rsVars, cbVars, pollVars, qhVars>>
    \/ ClearAllTracking /\ UNCHANGED <<isVars, concVars, storeVars, qmVars, sendVars, upVars, qrVars, findVars, seVars, pathVars, authVars, procVars, saveVars, rsVars, cbVars, pollVars, qhVars>>
    \/ AfRestart /\ UNCHANGED <<isVars, concVars, storeVars, qmVars, sendVars, upVars, qrVars, findVars, seVars, pathVars, authVars, procVars, saveVars, rsVars, cbVars, pollVars, qhVars>>

SpecAF == InitSeq /\ [][NextAF]_vars

C12_LedgerOnDiskAfterTick ==
    (af.pc = "idle" /\ af.outcome /= "none") =>
       \A p \in tick_ok : IsSeriesSent(tracking_file, p[1], p[2])

C15_RemovedNodeHasNoLedger ==
    \A n \in removed : n \notin DOMAIN sent_tracking /\ n \notin DOMAIN tracking_file

(***************************************************************************)
(* One call of NodeManager._send_files_to_node on any list of up to         *)
(* MaxFiles files, with any outcome of the association and of each          *)
(* send_c_store.                                                            *)
(***************************************************************************)
SendFiles(assoc_outcome, statuses) ==
    /\ ~send_call.called
    /\ send_call' = [called |-> TRUE, assoc |-> assoc_outcome, statuses |-> statuses,
                     result |-> SendFilesToNode(assoc_outcome, statuses)]

NextSend ==
    \E assoc_outcome \in AssocOutcomes, n \in 0..MaxFiles :
       \E statuses \in [1..n -> FileOutcomes] :
          SendFiles(assoc_outcome, statuses)
          /\ UNCHANGED <<isVars, concVars, storeVars, qmVars, afVars, upVars, qrVars, findVars, seVars, pathVars, authVars, procVars, saveVars, rsVars, cbVars, pollVars, qhVars>>

SpecSend == InitSeq /\ [][NextSend]_vars

\* the files of the call that were acknowledged with status 0x0000
Accepted(statuses) == Cardinality({i \in 1..Len(statuses) : statuses[i] = "0x0000"})

\* C14: _send_files_to_node returns True exactly when the association was
\* established and five times the number of files acknowledged with 0x0000
\* is at least four times the number of files.
C14_SuccessIffEightyPercent ==
    send_call.called =>
       (send_call.result <=>
           (/\ send_call.assoc = "established"
            /\ 5 * Accepted(send_call.statuses) >= 4 * Len(send_call.statuses)))

\* C14 witness: five files, four acknowledged with 0x0000 and one without a
\* response, over an established association: the call returned True.
C14_Witness ==
    /\ send_call.called
    /\ send_call.assoc = "established"
    /\ Len(send_call.statuses) = 5
    /\ Accepted(send_call.statuses) = 4
    /\ \E i \in 1..5 : send_call.statuses[i] = "no response"
    /\ send_call.result

(***************************************************************************)
(* C-STORE handlers of one study against the study-complete callback.       *)
(* auto_upload and cleanup_after_upload are enabled.  Time is not counted:  *)
(* Expire stands for more than the timeout passing since the last touch,    *)
(* and a handler takes less than the timeout from its touch to its return.  *)
(* The callback runs on the monitor thread inside _finalize_study, with     *)
(* study_monitor_lock held from the membership test to its return.          *)
(***************************************************************************)
CleanupAfterUpload == TRUE

MonitorHoldsLock == completion.pc \in {"zip", "upload", "cleanup"}

\* _handle_store / handle_store: update_study_activity, the first statement
\* after reading the UIDs; it needs study_monitor_lock
StoreTouch(h, i) ==
    /\ store_thread[h].pc = "idle"
    /\ i \in upload_hist.unsent
    /\ ~MonitorHoldsLock
    /\ study_activity' = [last_activity |-> "fresh", active |-> TRUE]
    /\ store_thread' = [store_thread EXCEPT ![h] = [pc |-> "path", instance |-> i]]
    /\ upload_hist' = [upload_hist EXCEPT !.unsent = @ \ {i}]
    /\ UNCHANGED <<completion, study_dir>>

\* get_file_path: scans_dir.mkdir(parents=True, exist_ok=True)
StoreGetFilePath(h) ==
    /\ store_thread[h].pc = "path"
    /\ study_dir' = [study_dir EXCEPT !.exists = TRUE]
    /\ store_thread' = [store_thread EXCEPT ![h].pc = "save"]
    /\ UNCHANGED <<completion, study_activity, upload_hist>>

\* dataset.save_as(file_path); return 0x0000.  save_as raises when the
\* directory was removed after get_file_path, and no status is returned.
StoreSaveAs(h) ==
    /\ store_thread[h].pc = "save"
    /\ IF study_dir.exists
          THEN /\ study_dir' = [study_dir EXCEPT !.files = @ \cup {store_thread[h].instance}]
               /\ upload_hist' = [upload_hist EXCEPT !.stored_ok = @ \cup {store_thread[h].instance}]
          ELSE UNCHANGED <<study_dir, upload_hist>>
    /\ store_thread' = [store_thread EXCEPT ![h] = [pc |-> "idle", instance |-> ""]]
    /\ UNCHANGED <<completion, study_activity>>

\* more than the timeout passes since the last update_study_activity
Expire ==
    /\ study_activity.last_activity = "fresh"
    /\ \A h \in StoreThreads : store_thread[h].pc = "idle"
    /\ study_activity' = [study_activity EXCEPT !.last_activity = "expired"]
    /\ UNCHANGED <<store_thread, completion, study_dir, upload_hist>>

\* _monitor_studies_timeout: the scan pops the expired study and releases the lock
ScanPopsStudy ==
    /\ completion.pc = "sleep"
    /\ study_activity.last_activity = "expired"
    /\ study_activity' = [study_activity EXCEPT !.last_activity = "none"]
    /\ completion' = [completion EXCEPT !.pc = "finalize"]
    /\ UNCHANGED <<store_thread, study_dir, upload_hist>>

\* _finalize_study takes the lock and tests active_studies; the callback
\* _study_complete_handler starts and returns at once when the study
\* directory does not exist
FinalizeAndStartCallback ==
    /\ completion.pc = "finalize"
    /\ study_activity' = [study_activity EXCEPT !.active = FALSE]
    /\ completion' = [completion EXCEPT
          !.pc = IF study_activity.active /\ study_dir.exists THEN "zip" ELSE "sleep"]
    /\ UNCHANGED <<store_thread, study_dir, upload_hist>>

\* ApiUploader.zip_study: the files found by os.walk, or None on an error
ZipStudy(ok) ==
    /\ completion.pc = "zip"
    /\ completion' = IF ok THEN [pc |-> "upload", zip_file |-> study_dir.files]
                           ELSE [pc |-> "sleep", zip_file |-> {}]
    /\ UNCHANGED <<store_thread, study_activity, study_dir, upload_hist>>

\* ApiUploader.upload_study: if upload_success and self.cleanup_after_upload
CleansUp(upload_success) == upload_success /\ CleanupAfterUpload

\* ApiUploader.upload_study up to the decision to clean up
UploadStudy(upload_success) ==
    /\ completion.pc = "upload"
    /\ upload_hist' = [upload_hist EXCEPT
          !.uploaded = IF upload_success THEN @ \cup completion.zip_file ELSE @]
    /\ completion' = [completion EXCEPT
          !.pc = IF CleansUp(upload_success) THEN "cleanup" ELSE "sleep"]
    /\ UNCHANGED <<store_thread, study_activity, study_dir>>

\* ApiUploader.cleanup_files: os.remove(zip), shutil.rmtree(study_dir)
CleanupFiles ==
    /\ completion.pc = "cleanup"
    /\ upload_hist' = [upload_hist EXCEPT !.deleted = @ \cup study_dir.files]
    /\ study_dir' = [exists |-> FALSE, files |-> {}]
    /\ completion' = [pc |-> "sleep", zip_file |-> {}]
    /\ UNCHANGED <<store_thread, study_activity>>

NextUp ==
    \/ \E h \in StoreThreads, i \in Instances :
          StoreTouch(h, i) /\ UNCHANGED <<isVars, concVars, storeVars, qmVars, afVars, sendVars, qrVars, findVars, seVars, pathVars, authVars, procVars, saveVars, rsVars, cbVars, pollVars, qhVars>>
    \/ \E h \in StoreThreads :
          StoreGetFilePath(h) /\ UNCHANGED <<isVars, concVars, storeVars, qmVars, afVars, sendVars, qrVars, findVars, seVars, pathVars, authVars, procVars, saveVars, rsVars, cbVars, pollVars, qhVars>>
    \/ \E h \in StoreThreads :
          StoreSaveAs(h) /\ UNCHANGED <<isVars, concVars, storeVars, qmVars, afVars, sendVars, qrVars, findVars, seVars, pathVars, authVars, procVars, saveVars, rsVars, cbVars, pollVars, qhVars>>
    \/ Expire /\ UNCHANGED <<isVars, concVars, storeVars, qmVars, afVars, sendVars, qrVars, findVars, seVars, pathVars, authVars, procVars, saveVars, rsVars, cbVars, pollVars, qhVars>>
    \/ ScanPopsStudy /\ UNCHANGED <<isVars, concVars, storeVars, qmVars, afVars, sendVars, qrVars, findVars, seVars, pathVars, authVars, procVars, saveVars, rsVars, cbVars, pollVars, qhVars>>
    \/ FinalizeAndStartCallback /\ UNCHANGED <<isVars, concVars, storeVars, qmVars, afVars, sendVars, qrVars, findVars, seVars, pathVars, authVars, procVars, saveVars, rsVars, cbVars, pollVars, qhVars>>
    \/ \E ok \in BOOLEAN :
          ZipStudy(ok) /\ UNCHANGED <<isVars, concVars, storeVars, qmVars, afVars, sendVars, qrVars, findVars, seVars, pathVars, authVars, procVars, saveVars, rsVars, cbVars, pollVars, qhVars>>
    \/ \E upload_success \in BOOLEAN :
          UploadStudy(upload_success)
          /\ UNCHANGED <<isVars, concVars, storeVars, qmVars, afVars, sendVars, qrVars, findVars, seVars, pathVars, authVars, procVars, saveVars, rsVars, cbVars, pollVars, qhVars>>
    \/ CleanupFiles /\ UNCHANGED <<isVars, concVars, storeVars, qmVars, afVars, sendVars, qrVars, findVars, seVars, pathVars, authVars, procVars, saveVars, rsVars, cbVars, pollVars, qhVars>>

SpecUp == InitSeq /\ [][NextUp]_vars

\* C16: an instance file whose C-STORE returned 0x0000 and that has been
\* deleted was part of a package whose upload succeeded.
C16_DeletedOnlyAfterUpload ==
    \A i \in upload_hist.deleted \cap upload_hist.stored_ok : i \in upload_hist.uploaded

(***************************************************************************)
(* C-MOVE and C-GET handlers.  A request is given by its level, the files   *)
(* local storage holds for it (and the patient directory they are under),   *)
(* the files the API would return for it, whether API access is             *)
(* configured, and whether the handler raises before it searches.  A file   *)
(* is readable when dcmread and the de-anonymisation succeed on it.  The    *)
(* responses of a handler are the sequence of values its generator yields.  *)
(***************************************************************************)
QueryLevels == {"PATIENT", "STUDY", "SERIES", "IMAGE"}

FileLists(src) ==
    UNION {{[i \in 1..n |-> [src |-> src, k |-> i, readable |-> r[i]]] : r \in [1..n -> BOOLEAN]}
              : n \in 0..MaxMatch}

RetrieveRequests ==
    [level : QueryLevels, local : FileLists("local"), patient_dir : {"P1", "unknown"},
     api : FileLists("api"), has_api : BOOLEAN, raises : BOOLEAN]

Destination == [kind |-> "destination", n |-> 0, file |-> <<>>, status |-> ""]
Count(n) == [kind |-> "count", n |-> n, file |-> <<>>, status |-> ""]
Pending(f) == [kind |-> "pending", n |-> 0, file |-> <<f>>, status |-> "0xFF00"]
Status(st) == [kind |-> "status", n |-> 0, file |-> <<>>, status |-> st]

\* the loop over the files: one (0xFF00, dataset) per file that can be read
\* and de-anonymised, on_fail for a file that cannot
RECURSIVE YieldFiles(_, _)
YieldFiles(fs, on_fail) ==
    IF fs = <<>> THEN <<>>
    ELSE (IF Head(fs).readable THEN <<Pending(Head(fs))>> ELSE on_fail)
            \o YieldFiles(Tail(fs), on_fail)

\* MoveHandler._find_api_files: no branch for the PATIENT level
FindApiFiles(req) ==
    IF req.has_api /\ req.level \in {"STUDY", "SERIES", "IMAGE"} THEN req.api ELSE <<>>

MoveRefusesNever(total_temp_files) == FALSE

\* MoveHandler.handle_move: if total_temp_files == 0
MoveRefuses(total_temp_files) == total_temp_files = 0

\* MoveHandler.handle_move: the values yielded, in order
MoveYields(req) ==
    IF req.raises THEN <<Status("0xA701")>>
    ELSE LET temp_local_files == req.local
             temp_api_files == IF temp_local_files = <<>> /\ req.has_api
                                  THEN FindApiFiles(req) ELSE <<>>
             total_files == Len(temp_local_files) + Len(temp_api_files)
         IN  IF MoveRefuses(total_files)
                THEN <<Status("0xA701")>>
                ELSE <<Destination, Count(total_files)>>
                        \o YieldFiles(temp_local_files, <<Status("0xB000")>>)
                        \o YieldFiles(temp_api_files, <<Status("0xB000")>>)
                        \o <<Status("0x0000")>>

\* GetHandler._get_files_for_query: every level downloads from the API
GetFilesForQuery(req) ==
    IF req.has_api /\ req.level \in {"STUDY", "SERIES", "IMAGE"} THEN req.api ELSE <<>>

\* GetHandler.handle_get.get_generator: the values yielded, in order
GetYields(req) ==
    LET found == GetFilesForQuery(req)
    IN  IF found = <<>> THEN <<Count(0)>>
        ELSE <<Count(Len(found))>> \o YieldFiles(found, <<>>)

\* DicomServiceProvider._get_study / _get_series / _get_image: the local
\* files found.  get_images_for_series returns one dict per readable file,
\* which dcmread cannot open; get_file_path without a dataset looks under
\* the patient directory "unknown" and the image is one file.
ScpLocalFiles(req) ==
    CASE req.level = "STUDY"  -> req.local
      [] req.level = "SERIES" ->
            LET infos == SelectSeq(req.local, LAMBDA f : f.readable)
            IN  [i \in 1..Len(infos) |-> [infos[i] EXCEPT !.readable = FALSE]]
      [] req.level = "IMAGE"  ->
            IF req.patient_dir = "unknown" /\ req.local /= <<>> THEN <<req.local[1]>> ELSE <<>>
      [] OTHER -> <<>>

\* DicomServiceProvider._handle_get with _send_local_files and
\* _send_downloaded_files: the values yielded, in order
ScpGetYields(req) ==
    IF req.level \notin {"STUDY", "SERIES", "IMAGE"} THEN <<Status("0xC000")>>
    ELSE LET local_files == ScpLocalFiles(req)
         IN  IF local_files /= <<>>
                THEN <<Count(Len(local_files))>> \o YieldFiles(local_files, <<>>)
                        \o <<Status("0x0000")>>
             ELSE IF ~req.has_api \/ req.api = <<>> THEN <<Status("0xC000")>>
             ELSE <<Count(Len(req.api))>> \o YieldFiles(req.api, <<>>) \o <<Status("0x0000")>>

HandleMove(req) ==
    /\ retrieve.handler = "none"
    /\ retrieve' = [handler |-> "MoveHandler", request |-> <<req>>, yields |-> MoveYields(req),
                    api_consulted |-> ~req.raises /\ req.local = <<>> /\ req.has_api
                                         /\ req.level \in {"STUDY", "SERIES", "IMAGE"}]

HandleGet(req) ==
    /\ retrieve.handler = "none"
    /\ ~req.raises
    /\ retrieve' = [handler |-> "GetHandler", request |-> <<req>>, yields |-> GetYields(req),
                    api_consulted |-> req.has_api /\ req.level \in {"STUDY", "SERIES", "IMAGE"}]

ScpHandleGet(req) ==
    /\ retrieve.handler = "none"
    /\ ~req.raises
    /\ retrieve' = [handler |-> "DicomServiceProvider", request |-> <<req>>,
                    yields |-> ScpGetYields(req),
                    api_consulted |-> /\ req.level \in {"STUDY", "SERIES", "IMAGE"}
                                      /\ ScpLocalFiles(req) = <<>>
                                      /\ req.has_api]

NextQR ==
    \/ \E req \in RetrieveRequests :
          HandleMove(req) /\ UNCHANGED <<isVars, concVars, storeVars, qmVars, afVars, sendVars, upVars, findVars, seVars, pathVars, authVars, procVars, saveVars, rsVars, cbVars, pollVars, qhVars>>
    \/ \E req \in RetrieveRequests :
          HandleGet(req) /\ UNCHANGED <<isVars, concVars, storeVars, qmVars, afVars, sendVars, upVars, findVars, seVars, pathVars, authVars, procVars, saveVars, rsVars, cbVars, pollVars, qhVars>>
    \/ \E req \in RetrieveRequests :
          ScpHandleGet(req) /\ UNCHANGED <<isVars, concVars, storeVars, qmVars, afVars, sendVars, upVars, findVars, seVars, pathVars, authVars, procVars, saveVars, rsVars, cbVars, pollVars, qhVars>>

SpecQR == InitSeq /\ [][NextQR]_vars

\* the request of the last C-MOVE or C-GET, and the (0xFF00, dataset) pairs among its responses
Req == retrieve.request[1]
PendingAt == {i \in 1..Len(retrieve.yields) : retrieve.yields[i].kind = "pending"}
\* the files a C-MOVE request matches: the local ones, or else those of the API
Matched == IF Req.local /= <<>> THEN Len(Req.local) ELSE Len(FindApiFiles(Req))

\* C17: a C-MOVE whose request matches no file, in local storage or through
\* the API, yields the single status 0xA701 and no destination.
C17_NoMatchRefused ==
    (retrieve.handler = "MoveHandler" /\ Req.local = <<>> /\ Req.api = <<>>)
       => /\ retrieve.yields = <<Status("0xA701")>>
          /\ \A i \in 1..Len(retrieve.yields) : retrieve.yields[i].kind /= "destination"

\* C17 witness: a STUDY-level C-MOVE with API access configured, which found
\* nothing locally, asked the API, found nothing, and was refused.
C17_Witness ==
    /\ retrieve.handler = "MoveHandler"
    /\ Req.level = "STUDY" /\ Req.local = <<>> /\ Req.api = <<>>
    /\ Req.has_api /\ ~Req.raises /\ retrieve.api_consulted
    /\ retrieve.yields = <<Status("0xA701")>>

\* C18: a C-MOVE that matches N >= 1 files yields the destination, the count
\* N, N (0xFF00, dataset) pairs and one terminal status, in this order and
\* nothing else.
C18_MoveSequence ==
    (retrieve.handler = "MoveHandler" /\ ~Req.raises /\ Matched >= 1)
       => /\ Len(retrieve.yields) = Matched + 3
          /\ retrieve.yields[1] = Destination
          /\ retrieve.yields[2] = Count(Matched)
          /\ PendingAt = 3..(Matched + 2)
          /\ retrieve.yields[Matched + 3].kind = "status"

\* C19: a C-GET yields first the number of sub-operations N and then N
\* (0xFF00, dataset) pairs.
C19_GetCountMatchesDatasets ==
    retrieve.handler \in {"GetHandler", "DicomServiceProvider"}
       => /\ retrieve.yields /= <<>>
          /\ retrieve.yields[1].kind = "count"
          /\ Cardinality(PendingAt) = retrieve.yields[1].n

\* C20: for a C-GET at STUDY, SERIES or IMAGE level the API is consulted
\* only when local storage holds no matching file, and when local storage
\* holds a matching file that can be read, datasets are yielded and all of
\* them are local files.
C20_LocalFirst ==
    (retrieve.handler \in {"GetHandler", "DicomServiceProvider"}
        /\ Req.level \in {"STUDY", "SERIES", "IMAGE"})
       => /\ retrieve.api_consulted => Req.local = <<>>
          /\ (\E k \in 1..Len(Req.local) : Req.local[k].readable) =>
                /\ PendingAt /= {}
                /\ \A i \in PendingAt : retrieve.yields[i].file[1].src = "local"


(***************************************************************************)
(* C-FIND: FindHandler.handle_find with the four query handlers, and       *)
(* DicomServiceProvider._handle_find, against DicomStorage's lookups       *)
(***************************************************************************)
\* an instance file below the storage directory:
\* <patient>/<study>/<series>/scans/<sop>.dcm, and whether dcmread reads it
StoredFile(patient, study, series, sop, readable) ==
    [patient |-> patient, study |-> study, series |-> series, sop |-> sop,
     readable |-> readable]

\* the files the storage directory is drawn from: two patients with one
\* study and one series each, one file of the second patient unreadable
FindFiles ==
    {StoredFile("P1", "1.2.1", "1.2.1.1", "1.2.1.1.1", TRUE),
     StoredFile("P1", "1.2.1", "1.2.1.1", "1.2.1.1.2", TRUE),
     StoredFile("P2", "1.2.2", "1.2.2.1", "1.2.2.1.1", TRUE),
     StoredFile("P2", "1.2.2", "1.2.2.1", "1.2.2.1.2", FALSE)}

\* what the metadata API knows when it answers with data
ApiFiles ==
    {StoredFile("P1", "1.2.1", "1.2.1.1", "1.2.1.1.1", TRUE),
     StoredFile("P3", "1.2.3", "1.2.3.1", "1.2.3.1.1", TRUE)}

\* a python list of the elements of S; iterdir() and glob() promise no order
RECURSIVE AsList(_)
AsList(S) ==
    IF S = {} THEN <<>>
    ELSE LET x == CHOOSE y \in S : TRUE IN <<x>> \o AsList(S \ {x})

\* an info dict of the storage lookups, read with info.get(key, ''); kind
\* "str" is a plain path string, which has no get
Info(kind, patient, study, series, sop) ==
    [kind |-> kind, PatientID |-> patient, StudyInstanceUID |-> study,
     SeriesInstanceUID |-> series, SOPInstanceUID |-> sop]

\* DicomStorage.get_all_patients: returns from inside the loops as soon as
\* one file has been read
GetAllPatients(storage) ==
    LET readable == {f \in storage : f.readable}
    IN IF readable = {} THEN <<>>
       ELSE <<Info("dict", (CHOOSE f \in readable : TRUE).patient, "", "", "")>>

\* DicomStorage.get_all_studies: one dict per study directory
GetAllStudies(storage) ==
    AsList({Info("dict", f.patient, f.study, "", "") : f \in storage})

\* DicomStorage.get_series_for_study: one dict per series directory
GetSeriesForStudy(storage, study_uid) ==
    AsList({Info("dict", f.patient, study_uid, f.series, "") :
                f \in {g \in storage : g.study = study_uid}})

\* DicomStorage.get_images_for_series: one dict per file dcmread reads
GetImagesForSeries(storage, study_uid, series_uid) ==
    AsList({Info("dict", f.patient, study_uid, series_uid, f.sop) :
                f \in {g \in storage : /\ g.study = study_uid
                                       /\ g.series = series_uid
                                       /\ g.readable}})

\* DicomStorage.get_images_for_study: the paths of the files, as str
GetImagesForStudy(storage, study_uid) ==
    AsList({Info("str", f.patient, f.study, f.series, f.sop) :
                f \in {g \in storage : g.study = study_uid}})

\* the list the storage lookup of the level returns
LocalRecords(req) ==
    CASE req.level = "PATIENT" -> GetAllPatients(req.storage)
      [] req.level = "STUDY"   -> GetAllStudies(req.storage)
      [] req.level = "SERIES"  -> GetSeriesForStudy(req.storage, req.study_uid)
      [] req.series_uid # ""   ->
           GetImagesForSeries(req.storage, req.study_uid, req.series_uid)
      [] OTHER                 -> GetImagesForStudy(req.storage, req.study_uid)

\* the extract_*_from_api_data helpers and the loops over api_data['results'];
\* find_images sets images = [] when no SeriesInstanceUID was given
ApiRecords(req) ==
    CASE req.level = "PATIENT" ->
           AsList({Info("dict", f.patient, "", "", "") : f \in ApiFiles})
      [] req.level = "STUDY"   ->
           AsList({Info("dict", f.patient, f.study, "", "") : f \in ApiFiles})
      [] req.level = "SERIES"  -> GetSeriesForStudy(ApiFiles, req.study_uid)
      [] req.series_uid # ""   ->
           GetImagesForSeries(ApiFiles, req.study_uid, req.series_uid)
      [] OTHER                 -> <<>>

\* (status, identifier) as the handlers yield it; identifier None is <<>>
FindResponse(status, identifier) == [status |-> status, identifier |-> identifier]

\* (0xFF00, response_ds): the response dataset carries the level and the
\* values read with info.get
FindPending(level, info) ==
    FindResponse("0xFF00",
        <<[QueryRetrieveLevel |-> level, PatientID |-> info.PatientID,
           StudyInstanceUID |-> info.StudyInstanceUID,
           SeriesInstanceUID |-> info.SeriesInstanceUID,
           SOPInstanceUID |-> info.SOPInstanceUID]>>)

\* the requests: level (one of them unsupported), the UIDs given ("" for an
\* absent attribute), the storage directory, whether the API is configured
\* and what query_all_metadata does
FindRequests ==
    [level : {"PATIENT", "STUDY", "SERIES", "IMAGE", "WORKLIST"},
     study_uid : {"", "1.2.1", "1.2.2"}, series_uid : {"", "1.2.1.1"},
     storage : SUBSET FindFiles, has_api : BOOLEAN,
     api : {"raises", "no data", "data"}]

\* a fallback that takes whatever the API side holds, whether or not
\* query_all_metadata answered
FallbackIgnoresOutcome(local, req, api_records) ==
    IF local = <<>> /\ req.has_api THEN api_records ELSE local

\* the fallback of the query handlers: taken when the local list is empty
\* and the API is configured; an exception and an empty answer leave the
\* list as it is
WithApiFallback(local, req, api_records) ==
    IF local = <<>> /\ req.has_api /\ req.api = "data" THEN api_records ELSE local

\* the loop without the final yield
RECURSIVE YieldRecordsNoFinal(_, _)
YieldRecordsNoFinal(level, records) ==
    IF records = <<>> THEN <<>>
    ELSE IF records[1].kind = "str" THEN <<FindResponse("0xC000", <<>>)>>
    ELSE <<FindPending(level, records[1])>> \o YieldRecordsNoFinal(level, Tail(records))

\* the loop "for info in records: ... yield 0xFF00, response_ds" and the
\* final "yield 0x0000, None"; info.get raises AttributeError on a str, which
\* ends the generator and is caught by the except of the caller
RECURSIVE YieldRecords(_, _)
YieldRecords(level, records) ==
    IF records = <<>> THEN <<FindResponse("0x0000", <<>>)>>
    ELSE IF records[1].kind = "str" THEN <<FindResponse("0xC000", <<>>)>>
    ELSE <<FindPending(level, records[1])>> \o YieldRecords(level, Tail(records))

SupportedLevels == {"PATIENT", "STUDY", "SERIES", "IMAGE"}

\* FindHandler.handle_find over PatientQueryHandler.find_patients,
\* StudyQueryHandler.find_studies, SeriesQueryHandler.find_series and
\* ImageQueryHandler.find_images
FindYields(req) ==
    IF req.level \notin SupportedLevels THEN <<FindResponse("0xC000", <<>>)>>
    ELSE IF req.level = "SERIES" /\ req.study_uid = ""
    THEN <<FindResponse("0xC000", <<>>)>>
    ELSE IF req.level = "IMAGE" /\ req.study_uid = ""
    THEN <<FindResponse("0x0000", <<>>)>>
    ELSE YieldRecords(req.level,
                      WithApiFallback(LocalRecords(req), req, ApiRecords(req)))

\* DicomServiceProvider._handle_find over _find_patients, _find_studies,
\* _find_series and _find_images: as above, but an IMAGE query needs both UIDs
ScpFindYields(req) ==
    IF req.level = "IMAGE" /\ (req.study_uid = "" \/ req.series_uid = "")
    THEN <<FindResponse("0xC000", <<>>)>>
    ELSE FindYields(req)

\* FindHandler.handle_find (core/handlers/find_handler.py)
HandleFind(req) ==
    /\ find.handler = "none"
    /\ find' = [handler |-> "FindHandler.handle_find", request |-> <<req>>,
                yields |-> FindYields(req)]

\* DicomServiceProvider._handle_find (core/scp.py), the handler bound to
\* EVT_C_FIND
ScpHandleFind(req) ==
    /\ find.handler = "none"
    /\ find' = [handler |-> "DicomServiceProvider._handle_find", request |-> <<req>>,
                yields |-> ScpFindYields(req)]

NextFind ==
    \/ \E req \in FindRequests :
          HandleFind(req) /\ UNCHANGED <<isVars, concVars, storeVars, qmVars, afVars, sendVars, upVars, qrVars, seVars, pathVars, authVars, procVars, saveVars, rsVars, cbVars, pollVars, qhVars>>
    \/ \E req \in FindRequests :
          ScpHandleFind(req) /\ UNCHANGED <<isVars, concVars, storeVars, qmVars, afVars, sendVars, upVars, qrVars, seVars, pathVars, authVars, procVars, saveVars, rsVars, cbVars, pollVars, qhVars>>

SpecFind == InitSeq /\ [][NextFind]_vars

FindReq == find.request[1]
FindPendings == SelectSeq(find.yields, LAMBDA r : r.status = "0xFF00")

\* the AttributeError of find_images: an IMAGE query to FindHandler with a
\* StudyInstanceUID, no SeriesInstanceUID and a file of that study in storage
FindRaises ==
    /\ find.handler = "FindHandler.handle_find"
    /\ FindReq.level = "IMAGE" /\ FindReq.study_uid # "" /\ FindReq.series_uid = ""
    /\ \E f \in FindReq.storage : f.study = FindReq.study_uid

\* the requests the handlers answer with 0xC000 for a missing UID
FindRefusedForUid ==
    \/ FindReq.level = "SERIES" /\ FindReq.study_uid = ""
    \/ /\ find.handler = "DicomServiceProvider._handle_find"
       /\ FindReq.level = "IMAGE"
       /\ (FindReq.study_uid = "" \/ FindReq.series_uid = "")

\* zero or more Pending responses carrying the level, then one terminal
\* status without identifier, 0xC000 in the failure cases and 0x0000 otherwise
StreamShape(failure_cases) ==
    find.handler # "none" =>
        LET n == Len(find.yields)
        IN /\ n >= 1
           /\ \A i \in 1..(n - 1) :
                 /\ find.yields[i].status = "0xFF00"
                 /\ find.yields[i].identifier # <<>>
                 /\ find.yields[i].identifier[1].QueryRetrieveLevel = FindReq.level
           /\ find.yields[n].identifier = <<>>
           /\ find.yields[n].status = IF failure_cases THEN "0xC000" ELSE "0x0000"

C22_MissingUidFails ==
    (/\ find.handler # "none"
     /\ \/ FindReq.level \notin SupportedLevels
        \/ FindReq.level \in {"SERIES", "IMAGE"} /\ FindReq.study_uid = "")
    => find.yields = <<FindResponse("0xC000", <<>>)>>

\* C23: a PATIENT-level C-FIND answered from local storage returns one
\* Pending response per patient directory that holds a readable instance.
C23_OnePendingPerPatient ==
    (/\ find.handler # "none"
     /\ FindReq.level = "PATIENT"
     /\ \E f \in FindReq.storage : f.readable)
    => Len(FindPendings) = Cardinality({f.patient : f \in {g \in FindReq.storage : g.readable}})

\* C24: an IMAGE-level C-FIND with a StudyInstanceUID and no SeriesInstanceUID
\* returns one Pending response per stored instance of the study, carrying
\* its SOPInstanceUID, followed by Success.
C24_ImagesOfWholeStudy ==
    (/\ find.handler # "none"
     /\ FindReq.level = "IMAGE" /\ FindReq.study_uid # "" /\ FindReq.series_uid = "")
    => /\ {r.identifier[1].SOPInstanceUID : r \in {find.yields[i] : i \in 1..(Len(find.yields) - 1)}}
          = {f.sop : f \in {g \in FindReq.storage : g.study = FindReq.study_uid /\ g.readable}}
       /\ find.yields[Len(find.yields)].status = "0x0000"

\* the local lookup of the request was made and was empty, and the API is
\* configured
FallbackTaken ==
    /\ find.handler # "none"
    /\ FindReq.level \in SupportedLevels
    /\ ~FindRefusedForUid
    /\ ~(FindReq.level = "IMAGE" /\ FindReq.study_uid = "")
    /\ LocalRecords(FindReq) = <<>>
    /\ FindReq.has_api

\* C25: when the local lookup of a C-FIND is empty and the API fallback raises
\* or returns no data, the stream is the single response Success (0x0000),
\* with no Pending response.
C25_FailedFallbackIsEmptySuccess ==
    (FallbackTaken /\ FindReq.api \in {"raises", "no data"})
    => find.yields = <<FindResponse("0x0000", <<>>)>>

\* a SERIES query for a study the storage does not hold and the API does,
\* whose query_all_metadata raised
C25_Witness ==
    /\ FallbackTaken
    /\ FindReq.api = "raises"
    /\ FindReq.level = "SERIES" /\ FindReq.study_uid = "1.2.1"
    /\ find.yields = <<FindResponse("0x0000", <<>>)>>

(***************************************************************************)
(* C-STORE with a step that fails                                          *)
(***************************************************************************)
\* the steps of the handlers that can raise, by the call that raises
StoreFaults ==
    {"none", "anonymize_dataset", "_save_patient_info_map",
     "_fix_dicom_file_metadata", "save_as"}

\* what leaves the handler: handle_store and _handle_store have no try, so
\* an exception of encrypt_dataset (anonymize_dataset and the
\* _save_patient_info_map it calls) or of save_as leaves the handler;
\* _fix_dicom_file_metadata catches its own exceptions, logs them, and the
\* handler goes on to save_as and returns 0x0000
StoreOutcome(fault) ==
    IF fault \in {"none", "_fix_dicom_file_metadata"} THEN "0x0000" ELSE "raised"

StoreWithFault(handler, fault) ==
    /\ Len(assoc_stores) < MaxAssocStores
    /\ assoc_stores' = Append(assoc_stores,
                              [handler |-> handler, fault |-> fault,
                               outcome |-> StoreOutcome(fault)])

\* StoreHandler.handle_store with one step failing, or none
FaultyHandleStore(fault) == StoreWithFault("StoreHandler.handle_store", fault)

\* DicomServiceProvider._handle_store, which has no file-meta fix-up
FaultyScpHandleStore(fault) ==
    /\ fault # "_fix_dicom_file_metadata"
    /\ StoreWithFault("DicomServiceProvider._handle_store", fault)

NextStoreErrors ==
    \/ \E fault \in StoreFaults :
          FaultyHandleStore(fault) /\ UNCHANGED <<isVars, concVars, storeVars, qmVars, afVars, sendVars, upVars, qrVars, findVars, pathVars, authVars, procVars, saveVars, rsVars, cbVars, pollVars, qhVars>>
    \/ \E fault \in StoreFaults :
          FaultyScpHandleStore(fault) /\ UNCHANGED <<isVars, concVars, storeVars, qmVars, afVars, sendVars, upVars, qrVars, findVars, pathVars, authVars, procVars, saveVars, rsVars, cbVars, pollVars, qhVars>>

SpecStoreErrors == InitSeq /\ [][NextStoreErrors]_vars

\* C26: if anonymisation, the mapping-file write, the file-meta fix-up or the
\* file write fails while a C-STORE is handled, the handler returns a DICOM
\* failure status: no exception leaves the handler, and the status is not
\* Success.
C26_StoreErrorsBecomeFailureStatus ==
    \A i \in 1..Len(assoc_stores) :
        assoc_stores[i].fault # "none" => assoc_stores[i].outcome \notin {"raised", "0x0000"}

(***************************************************************************)
(* DicomStorage.get_file_path on PatientIDs that need sanitising           *)
(***************************************************************************)
\* the characters PatientIDs are made of: a letter, a digit, the space, a
\* separator the sanitiser keeps, one it removes, and a letter outside ASCII
PidChars == {"A", "7", " ", ".", "/", "é"}

RECURSIVE PidsOfLen(_)
PidsOfLen(n) ==
    IF n = 0 THEN {<<>>}
    ELSE {<<c>> \o p : c \in PidChars, p \in PidsOfLen(n - 1)}

\* the datasets get_file_path is called with: PatientID absent, empty, or any
\* string of up to MaxPidLen characters
PathDatasets ==
    {StoreDataset(study, sop, Absent, pid, Absent, "") :
        study \in Studies, sop \in {"1.2.1.1.1", "1.2.1.1.2"},
        pid \in {Absent, Present(<<>>)}
                \cup {Present(<<p>>) : p \in UNION {PidsOfLen(n) : n \in 1..MaxPidLen}}}

\* a call of get_file_path(study_uid, series_uid, instance_uid, dataset)
GetFilePath(ds) ==
    /\ path_calls = <<>>
    /\ path_calls' = <<[ds |-> ds, path |-> FilePath(ds)]>>

\* a second call with the arguments of the first
GetFilePathAgain ==
    /\ Len(path_calls) = 1
    /\ path_calls' = Append(path_calls,
                            [ds |-> path_calls[1].ds, path |-> FilePath(path_calls[1].ds)])

NextPath ==
    \/ \E ds \in PathDatasets :
          GetFilePath(ds) /\ UNCHANGED <<isVars, concVars, storeVars, qmVars, afVars, sendVars, upVars, qrVars, findVars, seVars, authVars, procVars, saveVars, rsVars, cbVars, pollVars, qhVars>>
    \/ GetFilePathAgain /\ UNCHANGED <<isVars, concVars, storeVars, qmVars, afVars, sendVars, upVars, qrVars, findVars, seVars, authVars, procVars, saveVars, rsVars, cbVars, pollVars, qhVars>>

SpecPath == InitSeq /\ [][NextPath]_vars

\* the PatientID of a call as a string, <<>> when the dataset has none
PidOf(call) ==
    IF HasAttr(call.ds, "PatientID") THEN PyStr(GetAttr(call.ds, "PatientID")) ELSE <<>>

\* s without its leading and trailing spaces
Trimmed(s) ==
    LET at == {i \in 1..Len(s) : s[i] # " "}
    IN IF at = {} THEN <<>>
       ELSE SubSeq(s, CHOOSE i \in at : \A j \in at : i <= j,
                      CHOOSE i \in at : \A j \in at : j <= i)

\* the path <root>/<dir>/<StudyUID>/<SeriesUID>/scans/<SOPUID>.dcm of a call
PathWithDir(call, dir) ==
    <<IF dir = <<>> THEN UNKNOWN ELSE dir,
      call.ds.StudyInstanceUID, call.ds.SeriesInstanceUID, "scans",
      <<call.ds.SOPInstanceUID, ".dcm">>>>

\* C27 (as amended): the path get_file_path returns is the same on every call
\* with the same arguments and is
\* <root>/<sanitised PID>/<StudyUID>/<SeriesUID>/scans/<SOPUID>.dcm, where the
\* sanitised PID is the PatientID with every character removed that is
\* neither alphanumeric (str.isalnum, which accepts letters and digits outside
\* ASCII) nor one of "._- ", and then stripped of leading and trailing spaces;
\* it is "unknown" when that is empty or the dataset has no PatientID.
C27_PathFromTrimmedPid ==
    /\ \A i \in 1..Len(path_calls) :
          path_calls[i].path =
              PathWithDir(path_calls[i],
                  Trimmed(SelectSeq(PidOf(path_calls[i]),
                      LAMBDA c : c \in Letters \cup Digits \cup {"é", ".", "_", "-", " "})))
    /\ \A i, j \in 1..Len(path_calls) :
          path_calls[i].ds = path_calls[j].ds => path_calls[i].path = path_calls[j].path

\* C27 as stated: the sanitised PID is the PatientID with every character
\* outside [A-Za-z0-9._ -] removed, and nothing else
C27_PathFromAsciiFilteredPid ==
    \A i \in 1..Len(path_calls) :
        path_calls[i].path =
            PathWithDir(path_calls[i],
                SelectSeq(PidOf(path_calls[i]),
                    LAMBDA c : c \in Letters \cup Digits \cup {".", "_", "-", " "}))

\* two calls for a PatientID with a leading space and a character that is
\* removed
C27_Witness ==
    /\ Len(path_calls) = 2
    /\ PidOf(path_calls[1]) = <<" ", "/">>
    /\ path_calls[2].path[1] = UNKNOWN

(***************************************************************************)
(* API requests and the 401 path: DicomQueryHandler.query_all_dicom_metadata, *)
(* ApiIntegrationUtils.download_series_from_api, ApiUploader.login         *)
(***************************************************************************)
\* tokens are numbered in the order the server issued them; 0 is None

\* the POSTs of one login(): attempt i is answered login_answers[i]; 200
\* ends the loop with a token, a 4xx other than 429 ends it without one, and
\* anything else goes to the next attempt
RECURSIVE LoginAttempts(_, _)
LoginAttempts(login_answers, attempt) ==
    IF attempt > MaxLoginRetries THEN [ok |-> FALSE, posts |-> MaxLoginRetries]
    ELSE IF login_answers[attempt] = 200 THEN [ok |-> TRUE, posts |-> attempt]
    ELSE IF login_answers[attempt] = 401 THEN [ok |-> FALSE, posts |-> attempt]
    ELSE LoginAttempts(login_answers, attempt + 1)

\* a login() that asks the server whatever is cached
LoginAlwaysAsks(auth_token, issued, login_answers) ==
    LET r == LoginAttempts(login_answers, 1)
    IN [ok |-> r.ok, posts |-> r.posts,
        auth_token |-> IF r.ok THEN issued + 1 ELSE auth_token]

\* ApiUploader.login: returns True at once when a token is cached; issued is
\* the number of tokens the server has handed out
Login(auth_token, issued, login_answers) ==
    IF auth_token # 0 THEN [ok |-> TRUE, posts |-> 0, auth_token |-> auth_token]
    ELSE LoginAlwaysAsks(auth_token, issued, login_answers)

\* what the environment decides: the token cached before the call (0 or 1),
\* the answers to the login attempts, and the status of the request and of
\* its retry
ApiAnswers ==
    [cached : {0, 1}, login : [1..MaxLoginRetries -> {200, 401, 500}],
     first : {200, 401, 500}, retry : {200, 401, 500}]

\* the request, the 401 branch and the retry; clears_token tells the two
\* operations apart
ApiRequest(op, a, clears_token) ==
    LET before == Login(a.cached, a.cached, a.login)      \* _authenticate()
        relogin == Login(IF clears_token THEN 0 ELSE before.auth_token,
                         IF before.auth_token = 0 THEN a.cached ELSE before.auth_token,
                         a.login)
        base == [op |-> op, answers |-> <<a>>, sent |-> <<>>, invalidated |-> FALSE,
                 relogin_posts |-> 0, auth_token |-> before.auth_token, result |-> "failed"]
    IN IF ~before.ok THEN base
       ELSE IF a.first = 200
       THEN [base EXCEPT !.sent = <<before.auth_token>>, !.result = "ok"]
       ELSE IF a.first # 401
       THEN [base EXCEPT !.sent = <<before.auth_token>>]
       ELSE IF ~relogin.ok
       THEN [base EXCEPT !.sent = <<before.auth_token>>, !.invalidated = clears_token,
                         !.relogin_posts = relogin.posts,
                         !.auth_token = IF clears_token THEN 0 ELSE before.auth_token]
       ELSE [base EXCEPT !.sent = <<before.auth_token, relogin.auth_token>>,
                         !.invalidated = clears_token,
                         !.relogin_posts = relogin.posts,
                         !.auth_token = relogin.auth_token,
                         !.result = IF a.retry = 200 THEN "ok" ELSE "failed"]

\* DicomQueryHandler.query_all_dicom_metadata: on 401 calls login() with the
\* token still cached
QueryAllDicomMetadata(a) ==
    /\ api_call.op = "none"
    /\ api_call' = ApiRequest("query_all_dicom_metadata", a, FALSE)

\* ApiIntegrationUtils.download_series_from_api: on 401 sets auth_token to
\* None and calls _authenticate()
DownloadSeriesFromApi(a) ==
    /\ api_call.op = "none"
    /\ api_call' = ApiRequest("download_series_from_api", a, TRUE)

NextAuth ==
    \/ \E a \in ApiAnswers :
          QueryAllDicomMetadata(a) /\ UNCHANGED <<isVars, concVars, storeVars, qmVars, afVars, sendVars, upVars, qrVars, findVars, seVars, pathVars, procVars, saveVars, rsVars, cbVars, pollVars, qhVars>>
    \/ \E a \in ApiAnswers :
          DownloadSeriesFromApi(a) /\ UNCHANGED <<isVars, concVars, storeVars, qmVars, afVars, sendVars, upVars, qrVars, findVars, seVars, pathVars, procVars, saveVars, rsVars, cbVars, pollVars, qhVars>>

SpecAuth == InitSeq /\ [][NextAuth]_vars

\* the request of the call was sent and answered with 401
Answered401 ==
    /\ api_call.op # "none"
    /\ Len(api_call.sent) >= 1
    /\ api_call.answers[1].first = 401

\* C28: when an API request is answered with 401, the cached token is
\* invalidated, a fresh login is made, and when it succeeds the request is
\* retried exactly once with the new token; a retry that fails, or a login
\* that fails, is reported to the caller as a failed operation.
C28_ReloginAndRetryWithNewToken ==
    Answered401 =>
        /\ api_call.invalidated
        /\ api_call.relogin_posts >= 1
        /\ Len(api_call.sent) <= 2
        /\ Len(api_call.sent) = 2 =>
              /\ api_call.sent[2] # api_call.sent[1]
              /\ api_call.sent[2] = api_call.auth_token
        /\ (Len(api_call.sent) = 1 \/ api_call.answers[1].retry # 200)
              => api_call.result = "failed"

(***************************************************************************)
(* Shutdown: the signal handler and stop() of DicomServiceProvider, the    *)
(* listener thread, StudyMonitor's loop and NodeManager's polling loop     *)
(***************************************************************************)
ProcessAlive == proc.main # "returned"

\* SIGINT or SIGTERM: _signal_handler runs on the main thread and calls stop()
Signal ==
    /\ proc.main = "joining"
    /\ proc.signals_left > 0
    /\ proc' = [proc EXCEPT !.main = "stop", !.signals_left = @ - 1]

\* stop(): returns when is_running is False, sets shutdown_event otherwise
StopSetsEvent ==
    /\ proc.main = "stop"
    /\ proc' = IF ~proc.is_running THEN [proc EXCEPT !.main = "joining"]
               ELSE [proc EXCEPT !.main = "stop_join", !.shutdown_event = TRUE]

\* stop(): server_thread.join(5.0) returns, with the thread ended or not,
\* and is_running becomes False
StopJoin ==
    /\ proc.main = "stop_join"
    /\ proc' = [proc EXCEPT !.main = "joining", !.is_running = FALSE]

\* start(): the join loop ends when the listener thread is no longer alive;
\* start() and main() return and the interpreter exits, which ends the
\* daemon threads where they are
ProcessExit ==
    /\ proc.main = "joining"
    /\ proc.listener = "exited"
    /\ proc' = [proc EXCEPT !.main = "returned",
                            !.monitor = "killed",
                            !.poller = IF @ \in {"not started", "exited"} THEN @
                                       ELSE "killed"]

\* _server_process: the loop "while not self.shutdown_event.is_set()"
ListenerObservesEvent ==
    /\ ProcessAlive
    /\ proc.listener = "serving"
    /\ proc.shutdown_event
    /\ proc' = [proc EXCEPT !.listener = "finally"]

\* _server_process: finally: self.ae.shutdown()
ListenerShutsDown ==
    /\ ProcessAlive
    /\ proc.listener = "finally"
    /\ proc' = [proc EXCEPT !.listener = "exited", !.accepting = FALSE]

\* _monitor_studies_timeout: "while True": scan under the lock, finalise,
\* sleep(1); no event or flag is read
MonitorLoop ==
    /\ ProcessAlive
    /\ proc.monitor \in {"scan", "finalize", "sleep"}
    /\ proc' = [proc EXCEPT !.monitor = CASE @ = "scan" -> "finalize"
                                          [] @ = "finalize" -> "sleep"
                                          [] OTHER -> "scan"]

\* NodeManager.start_auto_forwarding
StartAutoForwarding ==
    /\ ProcessAlive
    /\ ~proc.af_is_running
    /\ proc.poller \in {"not started", "exited"}
    /\ proc' = [proc EXCEPT !.af_is_running = TRUE, !.stop_event = FALSE,
                            !.poller = "wait"]

\* NodeManager.stop_auto_forwarding, which no signal handler calls
StopAutoForwarding ==
    /\ ProcessAlive
    /\ proc.af_is_running
    /\ proc' = [proc EXCEPT !.af_is_running = FALSE, !.stop_event = TRUE]

\* _polling_loop: "while not self.stop_event.wait(60)" and the tick
PollingLoop ==
    /\ ProcessAlive
    /\ proc.poller \in {"wait", "tick"}
    /\ proc' = [proc EXCEPT !.poller = IF @ = "tick" THEN "wait"
                                       ELSE IF proc.stop_event THEN "exited"
                                       ELSE "tick"]

NextShutdown ==
    \/ Signal /\ UNCHANGED <<isVars, concVars, storeVars, qmVars, afVars, sendVars, upVars, qrVars, findVars, seVars, pathVars, authVars, saveVars, rsVars, cbVars, pollVars, qhVars>>
    \/ StopSetsEvent /\ UNCHANGED <<isVars, concVars, storeVars, qmVars, afVars, sendVars, upVars, qrVars, findVars, seVars, pathVars, authVars, saveVars, rsVars, cbVars, pollVars, qhVars>>
    \/ StopJoin /\ UNCHANGED <<isVars, concVars, storeVars, qmVars, afVars, sendVars, upVars, qrVars, findVars, seVars, pathVars, authVars, saveVars, rsVars, cbVars, pollVars, qhVars>>
    \/ ProcessExit /\ UNCHANGED <<isVars, concVars, storeVars, qmVars, afVars, sendVars, upVars, qrVars, findVars, seVars, pathVars, authVars, saveVars, rsVars, cbVars, pollVars, qhVars>>
    \/ ListenerObservesEvent /\ UNCHANGED <<isVars, concVars, storeVars, qmVars, afVars, sendVars, upVars, qrVars, findVars, seVars, pathVars, authVars, saveVars, rsVars, cbVars, pollVars, qhVars>>
    \/ ListenerShutsDown /\ UNCHANGED <<isVars, concVars, storeVars, qmVars, afVars, sendVars, upVars, qrVars, findVars, seVars, pathVars, authVars, saveVars, rsVars, cbVars, pollVars, qhVars>>
    \/ MonitorLoop /\ UNCHANGED <<isVars, concVars, storeVars, qmVars, afVars, sendVars, upVars, qrVars, findVars, seVars, pathVars, authVars, saveVars, rsVars, cbVars, pollVars, qhVars>>
    \/ StartAutoForwarding /\ UNCHANGED <<isVars, concVars, storeVars, qmVars, afVars, sendVars, upVars, qrVars, findVars, seVars, pathVars, authVars, saveVars, rsVars, cbVars, pollVars, qhVars>>
    \/ StopAutoForwarding /\ UNCHANGED <<isVars, concVars, storeVars, qmVars, afVars, sendVars, upVars, qrVars, findVars, seVars, pathVars, authVars, saveVars, rsVars, cbVars, pollVars, qhVars>>
    \/ PollingLoop /\ UNCHANGED <<isVars, concVars, storeVars, qmVars, afVars, sendVars, upVars, qrVars, findVars, seVars, pathVars, authVars, saveVars, rsVars, cbVars, pollVars, qhVars>>

\* every thread that can take a step eventually takes one; signals and the
\* management calls may or may not come
SpecShutdownFair ==
    /\ InitSeq /\ [][NextShutdown]_vars
    /\ WF_vars(StopSetsEvent /\ UNCHANGED <<isVars, concVars, storeVars, qmVars, afVars, sendVars, upVars, qrVars, findVars, seVars, pathVars, authVars, saveVars, rsVars, cbVars, pollVars, qhVars>>)
    /\ WF_vars(StopJoin /\ UNCHANGED <<isVars, concVars, storeVars, qmVars, afVars, sendVars, upVars, qrVars, findVars, seVars, pathVars, authVars, saveVars, rsVars, cbVars, pollVars, qhVars>>)
    /\ WF_vars(ProcessExit /\ UNCHANGED <<isVars, concVars, storeVars, qmVars, afVars, sendVars, upVars, qrVars, findVars, seVars, pathVars, authVars, saveVars, rsVars, cbVars, pollVars, qhVars>>)
    /\ WF_vars(ListenerObservesEvent /\ UNCHANGED <<isVars, concVars, storeVars, qmVars, afVars, sendVars, upVars, qrVars, findVars, seVars, pathVars, authVars, saveVars, rsVars, cbVars, pollVars, qhVars>>)
    /\ WF_vars(ListenerShutsDown /\ UNCHANGED <<isVars, concVars, storeVars, qmVars, afVars, sendVars, upVars, qrVars, findVars, seVars, pathVars, authVars, saveVars, rsVars, cbVars, pollVars, qhVars>>)
    /\ WF_vars(MonitorLoop /\ UNCHANGED <<isVars, concVars, storeVars, qmVars, afVars, sendVars, upVars, qrVars, findVars, seVars, pathVars, authVars, saveVars, rsVars, cbVars, pollVars, qhVars>>)
    /\ WF_vars(PollingLoop /\ UNCHANGED <<isVars, concVars, storeVars, qmVars, afVars, sendVars, upVars, qrVars, findVars, seVars, pathVars, authVars, saveVars, rsVars, cbVars, pollVars, qhVars>>)

\* each worker has left its loop because it saw a flag
WorkersExited ==
    /\ ~proc.accepting
    /\ proc.listener = "exited"
    /\ proc.monitor = "exited"
    /\ proc.poller \in {"not started", "exited"}

\* C29: after SIGINT/SIGTERM has set the shutdown flag, the listener stops
\* accepting associations and the listener thread, the monitor loop and the
\* poller each eventually observe the flag and exit.
C29_WorkersExitAfterShutdown == proc.shutdown_event ~> WorkersExited

(***************************************************************************)
(* The mapping file while _save_patient_info_map writes it                 *)
(***************************************************************************)
\* the studies a C-STORE can add to patient_info_map
SaveStudies == {"1.2." \o DecimalDigits(n)[1] : n \in 1..MaxSavedStudies}

\* json.dump(combined_map, f, indent=2) as the chunks it writes: the opening
\* brace, one entry per study, the closing brace
Doc(mapping) == <<"{">> \o AsList(mapping) \o <<"}">>

\* anonymize_dataset records a new study and calls _save_patient_info_map,
\* which takes patient_map_lock
BeginSave(study) ==
    /\ map_save.pc = "idle" /\ ~map_save.crashed
    /\ study \notin map_save.mapping
    /\ map_save' = [map_save EXCEPT !.pc = "open", !.previous = map_save.mapping,
                                    !.mapping = @ \cup {study}]

\* open(self.patient_info_map_file, 'w'): the live file is truncated in place
OpenTruncates ==
    /\ map_save.pc = "open" /\ ~map_save.crashed
    /\ map_save' = [map_save EXCEPT !.pc = "dump", !.disk = <<>>]

\* json.dump: the next chunk reaches the file
WriteChunk ==
    /\ map_save.pc = "dump" /\ ~map_save.crashed
    /\ Len(map_save.disk) < Len(Doc(map_save.mapping))
    /\ map_save' = [map_save EXCEPT
                       !.disk = Append(@, Doc(map_save.mapping)[Len(@) + 1])]

\* the end of the with blocks: the file is closed and the lock released
CloseFile ==
    /\ map_save.pc = "dump" /\ ~map_save.crashed
    /\ map_save.disk = Doc(map_save.mapping)
    /\ map_save' = [map_save EXCEPT !.pc = "idle"]

\* the process dies: power loss, SIGKILL, or the end of the interpreter
Crash ==
    /\ ~map_save.crashed
    /\ map_save' = [map_save EXCEPT !.crashed = TRUE]

NextSave ==
    \/ \E study \in SaveStudies :
          BeginSave(study) /\ UNCHANGED <<isVars, concVars, storeVars, qmVars, afVars, sendVars, upVars, qrVars, findVars, seVars, pathVars, authVars, procVars, rsVars, cbVars, pollVars, qhVars>>
    \/ OpenTruncates /\ UNCHANGED <<isVars, concVars, storeVars, qmVars, afVars, sendVars, upVars, qrVars, findVars, seVars, pathVars, authVars, procVars, rsVars, cbVars, pollVars, qhVars>>
    \/ WriteChunk /\ UNCHANGED <<isVars, concVars, storeVars, qmVars, afVars, sendVars, upVars, qrVars, findVars, seVars, pathVars, authVars, procVars, rsVars, cbVars, pollVars, qhVars>>
    \/ CloseFile /\ UNCHANGED <<isVars, concVars, storeVars, qmVars, afVars, sendVars, upVars, qrVars, findVars, seVars, pathVars, authVars, procVars, rsVars, cbVars, pollVars, qhVars>>
    \/ Crash /\ UNCHANGED <<isVars, concVars, storeVars, qmVars, afVars, sendVars, upVars, qrVars, findVars, seVars, pathVars, authVars, procVars, rsVars, cbVars, pollVars, qhVars>>

SpecSave == InitSeq /\ [][NextSave]_vars

\* C30: at every instant, including after a crash at any point of a save, the
\* mapping file on disk is a complete document equal to the previous or to
\* the new mapping state; it is never observable truncated or partly written.
C30_FileIsPreviousOrNew ==
    map_save.disk \in {Doc(map_save.previous), Doc(map_save.mapping)}

(***************************************************************************)
(* The identity store across restarts: _save_patient_info_map writing the  *)
(* file, a stop at any point, and __init__ loading what is on disk         *)
(***************************************************************************)
\* a piece of the mapping file: a brace, or the entry of one name
Chunk(kind, name, tag) == [kind |-> kind, name |-> name, tag |-> tag]

\* patient_name_map as json.dump writes it
NameDoc(name_map) ==
    <<Chunk("{", <<>>, <<>>)>>
    \o AsList({Chunk("entry", n, name_map[n]) : n \in DOMAIN name_map})
    \o <<Chunk("}", <<>>, <<>>)>>

\* _load_patient_info_map: json.load of a file that is not a whole document
\* raises JSONDecodeError, which is caught and leaves patient_name_map = {};
\* a missing file does the same
LoadPatientInfoMap(disk) ==
    IF Len(disk) >= 2 /\ disk[1].kind = "{" /\ disk[Len(disk)].kind = "}"
    THEN LET entries == {disk[i] : i \in 2..(Len(disk) - 1)}
         IN [n \in {e.name : e \in entries} |->
                (CHOOSE e \in entries : e.name = n).tag]
    ELSE <<>>

\* anonymize_dataset for a dataset with PatientName original_name: the tag is
\* looked up or created, then _save_patient_info_map begins
AnonymizeName(original_name) ==
    /\ idstore.pc = "idle"
    /\ LET r == GetAnonymizedPatientName(idstore.patient_name_map,
                                         idstore.patient_counter, original_name)
       IN idstore' = [idstore EXCEPT !.patient_name_map = r.name_map,
                                     !.patient_counter = r.counter,
                                     !.issued = @ \cup {<<original_name, r.result>>},
                                     !.pc = "open"]

\* open(self.patient_info_map_file, 'w')
SaveOpens ==
    /\ idstore.pc = "open"
    /\ idstore' = [idstore EXCEPT !.disk = <<>>, !.pc = "dump"]

\* json.dump: the next piece reaches the file
SaveWrites ==
    /\ idstore.pc = "dump"
    /\ Len(idstore.disk) < Len(NameDoc(idstore.patient_name_map))
    /\ idstore' = [idstore EXCEPT
                      !.disk = Append(@, NameDoc(idstore.patient_name_map)[Len(@) + 1])]

\* the file is closed and anonymize_dataset returns
SaveCloses ==
    /\ idstore.pc = "dump"
    /\ idstore.disk = NameDoc(idstore.patient_name_map)
    /\ idstore' = [idstore EXCEPT !.pc = "idle"]

\* the process stops where it is and a new one runs DicomAnonymizer.__init__
ProcessRestart ==
    /\ idstore.restarts_left > 0
    /\ LET loaded == LoadPatientInfoMap(idstore.disk)
       IN idstore' = [idstore EXCEPT !.patient_name_map = loaded,
                                     !.patient_counter = GetNextPatientCounter(loaded),
                                     !.pc = "idle",
                                     !.restarts_left = @ - 1]

NextRestart ==
    \/ \E n \in Names :
          AnonymizeName(n) /\ UNCHANGED <<isVars, concVars, storeVars, qmVars, afVars, sendVars, upVars, qrVars, findVars, seVars, pathVars, authVars, procVars, saveVars, cbVars, pollVars, qhVars>>
    \/ SaveOpens /\ UNCHANGED <<isVars, concVars, storeVars, qmVars, afVars, sendVars, upVars, qrVars, findVars, seVars, pathVars, authVars, procVars, saveVars, cbVars, pollVars, qhVars>>
    \/ SaveWrites /\ UNCHANGED <<isVars, concVars, storeVars, qmVars, afVars, sendVars, upVars, qrVars, findVars, seVars, pathVars, authVars, procVars, saveVars, cbVars, pollVars, qhVars>>
    \/ SaveCloses /\ UNCHANGED <<isVars, concVars, storeVars, qmVars, afVars, sendVars, upVars, qrVars, findVars, seVars, pathVars, authVars, procVars, saveVars, cbVars, pollVars, qhVars>>
    \/ ProcessRestart /\ UNCHANGED <<isVars, concVars, storeVars, qmVars, afVars, sendVars, upVars, qrVars, findVars, seVars, pathVars, authVars, procVars, saveVars, cbVars, pollVars, qhVars>>

SpecRestart == InitSeq /\ [][NextRestart]_vars

\* C31: across process restarts, whatever the point at which the previous
\* process stopped, a PatientName that was given a tag keeps that tag, and no
\* tag is given to two different names.
C31_TagsSurviveRestart ==
    \A p, q \in idstore.issued : (p[1] = q[1]) <=> (p[2] = q[2])

(***************************************************************************)
(* The mapping document against the identity state in memory               *)
(***************************************************************************)
\* the studies whose record in patient_info_map carries PatientID pid
StudiesOfPatient(pid) ==
    {s \in DOMAIN patient_info_map :
        /\ "PatientID" \in DOMAIN patient_info_map[s]
        /\ patient_info_map[s]["PatientID"] = pid}

\* C32: after every anonymise call that has returned, the mapping document on
\* disk equals the identity state in memory: patient_info and patient_name_map
\* are the in-memory maps, and patient_study_map has one key per recorded
\* PatientID, listing exactly the studies whose record carries that PatientID.
C32_DocumentEqualsMemory ==
    map_file.exists =>
        /\ map_file.patient_info = patient_info_map
        /\ map_file.patient_name_map = patient_name_map
        /\ DOMAIN map_file.patient_study_map
              = {patient_info_map[s]["PatientID"] :
                    s \in {t \in DOMAIN patient_info_map :
                              "PatientID" \in DOMAIN patient_info_map[t]}}
        /\ \A pid \in DOMAIN map_file.patient_study_map :
              map_file.patient_study_map[pid] = StudiesOfPatient(pid)

\* two studies recorded under two PatientIDs and written to the document
C32_Witness ==
    /\ map_file.exists
    /\ last_call.op = "anonymize_dataset"
    /\ Cardinality(DOMAIN map_file.patient_study_map) = 2
    /\ Cardinality(DOMAIN patient_name_map) >= 2

(***************************************************************************)
(* The monitor lock during the completion callbacks                        *)
(***************************************************************************)
\* C33: completion callbacks are invoked while the monitor lock is not held:
\* while a callback runs, study_monitor_lock is free, and no
\* update_study_activity call has spent time waiting for the lock.
C33_CallbacksOutsideLock ==
    monitor.pc = "callback" =>
        /\ study_monitor_lock = NoThread
        /\ \A a \in Assocs : toucher[a].pc = "wait_lock" => toucher[a].now = 0

(***************************************************************************)
(* Completion callbacks that raise                                         *)
(***************************************************************************)
CallbackOutcomes == {"returns", "raises"}   \* callback(study_uid) returns or raises an Exception

\* the call without the try statement
NoTryExcept(outcome) == IF outcome = "raises" THEN "propagates" ELSE "returned"

\* try: callback(study_uid) / except Exception as e: logger.error(...)
TryExcept(outcome) == IF outcome = "raises" THEN "logged" ELSE "returned"

\* the lists the scan of one pass can build: distinct expired studies
ExpiredLists ==
    {<<>>} \cup {<<s>> : s \in Studies}
           \cup {<<s, t>> : <<s, t>> \in {p \in Studies \X Studies : p[1] # p[2]}}

\* _monitor_studies_timeout: the scan of one pass; the expired studies and
\* the active set are what the touches before the pass left behind
PassScan ==
    /\ finalizer.pc = "top"
    /\ finalizer.passes_left > 0
    /\ \E l \in ExpiredLists, act \in SUBSET Studies :
          finalizer' = [finalizer EXCEPT
              !.pc = "finalize", !.studies_to_finalize = l, !.active_studies = act,
              !.expected = {l[i] : i \in DOMAIN l} \cap act,
              !.called = {}, !.raised = {}, !.logged = 0, !.callback = 0,
              !.raised_before = @ \/ finalizer.raised # {},
              !.passes_left = @ - 1]

\* for study_uid in studies_to_finalize: self._finalize_study(study_uid),
\* up to the first callback; then time.sleep(1)
PassFinalize ==
    /\ finalizer.pc = "finalize"
    /\ IF finalizer.studies_to_finalize = <<>>
       THEN finalizer' = [finalizer EXCEPT !.pc = "sleep"]
       ELSE LET s == Head(finalizer.studies_to_finalize) IN
            IF s \in finalizer.active_studies /\ Len(RegisteredCallbacks) > 0
            THEN finalizer' = [finalizer EXCEPT !.pc = "callback", !.callback = 1,
                                                !.active_studies = @ \ {s}]
            ELSE finalizer' = [finalizer EXCEPT !.studies_to_finalize = Tail(@),
                                                !.active_studies = @ \ {s}]

\* _finalize_study: one iteration of the loop over study_complete_callbacks
CallbackRuns ==
    /\ finalizer.pc = "callback"
    /\ \E o \in CallbackOutcomes :
          LET s == Head(finalizer.studies_to_finalize)
              c == finalizer.callback
              r == TryExcept(o)
          IN  IF r = "propagates"
              THEN finalizer' = [finalizer EXCEPT !.pc = "dead",
                                    !.called = @ \cup {<<s, c>>},
                                    !.raised = @ \cup {<<s, c>>}]
              ELSE finalizer' = [finalizer EXCEPT
                      !.called = @ \cup {<<s, c>>},
                      !.raised = IF o = "raises" THEN @ \cup {<<s, c>>} ELSE @,
                      !.logged = IF r = "logged" THEN @ + 1 ELSE @,
                      !.callback = IF c < Len(RegisteredCallbacks) THEN c + 1 ELSE 0,
                      !.pc = IF c < Len(RegisteredCallbacks) THEN "callback" ELSE "finalize",
                      !.studies_to_finalize =
                          IF c < Len(RegisteredCallbacks) THEN @ ELSE Tail(@)]

\* time.sleep(1) is over: while True goes round
PassSleep ==
    /\ finalizer.pc = "sleep"
    /\ finalizer' = [finalizer EXCEPT !.pc = "top"]

NextCallbacks ==
    \/ PassScan /\ UNCHANGED <<isVars, concVars, storeVars, qmVars, afVars, sendVars, upVars, qrVars, findVars, seVars, pathVars, authVars, procVars, saveVars, rsVars, pollVars, qhVars>>
    \/ PassFinalize /\ UNCHANGED <<isVars, concVars, storeVars, qmVars, afVars, sendVars, upVars, qrVars, findVars, seVars, pathVars, authVars, procVars, saveVars, rsVars, pollVars, qhVars>>
    \/ CallbackRuns /\ UNCHANGED <<isVars, concVars, storeVars, qmVars, afVars, sendVars, upVars, qrVars, findVars, seVars, pathVars, authVars, procVars, saveVars, rsVars, pollVars, qhVars>>
    \/ PassSleep /\ UNCHANGED <<isVars, concVars, storeVars, qmVars, afVars, sendVars, upVars, qrVars, findVars, seVars, pathVars, authVars, procVars, saveVars, rsVars, pollVars, qhVars>>

SpecCallbacks == InitSeq /\ [][NextCallbacks]_vars

\* C34: an exception raised by a completion callback is caught and logged and
\* affects nothing else: the monitor thread stays alive, every exception of
\* the pass is logged, and at the end of a pass every registered callback has
\* been called for every study finalised in it.
C34_CallbackExceptionIsContained ==
    /\ finalizer.pc # "dead"
    /\ finalizer.logged = Cardinality(finalizer.raised)
    /\ finalizer.pc = "sleep" =>
          \A s \in finalizer.expected : \A c \in DOMAIN RegisteredCallbacks :
              <<s, c>> \in finalizer.called

\* the first callback of the first of two studies raised, in a pass that
\* followed a pass with an exception, and the pass is over
C34_Witness ==
    /\ finalizer.pc = "sleep"
    /\ finalizer.raised_before
    /\ Cardinality(finalizer.expected) = 2
    /\ \E s \in finalizer.expected :
          /\ <<s, 1>> \in finalizer.raised
          /\ \E t \in finalizer.expected \ {s} : <<t, 2>> \in finalizer.called

(***************************************************************************)
(* Where the entries of the ledger come from                               *)
(***************************************************************************)
\* a _forward_series_to_node call that downloaded files, established the
\* association and had at least 80% of the files acknowledged with 0x0000
GoodForward(inp) ==
    /\ ~inp.raises
    /\ Len(inp.statuses) > 0
    /\ inp.assoc = "established"
    /\ 5 * Accepted(inp.statuses) >= 4 * Len(inp.statuses)

\* C35: an entry (N, Y) enters the ledger in memory only in the step that ends
\* a forward of Y to N in which files were downloaded, the association was
\* established and at least 80% of the instances were acknowledged with
\* 0x0000, or when the ledger is loaded at construction from the tracking
\* file; and an entry enters the tracking file only from the ledger in memory.
C35_EntriesOnlyFromGoodForwards ==
    [][/\ \A n \in DOMAIN sent_tracking' : \A y \in sent_tracking'[n] :
             ~IsSeriesSent(sent_tracking, n, y) =>
                \/ /\ af.pc = "forward" /\ af.node = n /\ af.series = y
                   /\ af'.pc = "loop" /\ GoodForward(af'.inp)
                \/ /\ af.pc = "idle" /\ af'.pc = "idle"
                   /\ sent_tracking' = tracking_file
       /\ \A n \in DOMAIN tracking_file' : \A y \in tracking_file'[n] :
             ~IsSeriesSent(tracking_file, n, y) => IsSeriesSent(sent_tracking, n, y)
      ]_vars

\* an entry stands in the ledger after its forward succeeded, next to a
\* forward that failed without a download, an association or by an exception
\* and left no entry
C35_Witness ==
    /\ \E n \in DOMAIN sent_tracking : \E y \in sent_tracking[n] : <<n, y>> \in acked
    /\ \E f \in failed :
          /\ f.cause \in {"exception", "no files", "no association"}
          /\ ~IsSeriesSent(sent_tracking, f.node, f.series)

(***************************************************************************)
(* The two structures of the study monitor                                 *)
(***************************************************************************)
\* C36: every study that has a last-activity timestamp is in the active set:
\* the keys of study_last_activity are a subset of active_studies.
C36_ActivityKeysAreActive ==
    \A i \in DOMAIN study_last_activity :
        study_last_activity[i].study \in active_studies

(***************************************************************************)
(* start_auto_forwarding and stop_auto_forwarding                          *)
(***************************************************************************)
\* NodeManager.start_auto_forwarding
AfStart ==
    /\ polling.caller = "idle"
    /\ polling.calls_left > 0
    /\ polling' =
          IF polling.is_running
          THEN [polling EXCEPT !.calls_left = @ - 1]
          ELSE [polling EXCEPT !.calls_left = @ - 1, !.is_running = TRUE,
                               !.stop_event = FALSE,
                               !.threads = Append(@, "wait"),
                               !.polling_thread = Len(polling.threads) + 1]

\* NodeManager.stop_auto_forwarding up to the join
AfStop ==
    /\ polling.caller = "idle"
    /\ polling.calls_left > 0
    /\ polling' =
          IF ~polling.is_running
          THEN [polling EXCEPT !.calls_left = @ - 1]
          ELSE [polling EXCEPT !.calls_left = @ - 1, !.is_running = FALSE,
                               !.stop_event = TRUE,
                               !.caller = IF polling.polling_thread # 0
                                          THEN "joining" ELSE "idle"]

\* polling_thread.join(timeout=5) returns: the thread has ended, or five
\* seconds have passed while it is in a tick
AfJoin ==
    /\ polling.caller = "joining"
    /\ polling.threads[polling.polling_thread] \in {"exited", "tick"}
    /\ polling' = [polling EXCEPT !.caller = "idle"]

\* _polling_loop of thread i: stop_event.wait(60) returns, True when the
\* event is set and False after 60 seconds
PollerWait(i) ==
    /\ polling.threads[i] = "wait"
    /\ polling' = [polling EXCEPT !.threads[i] =
                       IF polling.stop_event THEN "exited" ELSE "tick"]

\* _polling_loop of thread i: _check_and_forward_new_series returns or raises
PollerTick(i) ==
    /\ polling.threads[i] = "tick"
    /\ polling' = [polling EXCEPT !.threads[i] = "wait"]

NextPolling ==
    \/ AfStart /\ UNCHANGED <<isVars, concVars, storeVars, qmVars, afVars, sendVars, upVars, qrVars, findVars, seVars, pathVars, authVars, procVars, saveVars, rsVars, cbVars, qhVars>>
    \/ AfStop /\ UNCHANGED <<isVars, concVars, storeVars, qmVars, afVars, sendVars, upVars, qrVars, findVars, seVars, pathVars, authVars, procVars, saveVars, rsVars, cbVars, qhVars>>
    \/ AfJoin /\ UNCHANGED <<isVars, concVars, storeVars, qmVars, afVars, sendVars, upVars, qrVars, findVars, seVars, pathVars, authVars, procVars, saveVars, rsVars, cbVars, qhVars>>
    \/ \E i \in DOMAIN polling.threads :
          PollerWait(i) /\ UNCHANGED <<isVars, concVars, storeVars, qmVars, afVars, sendVars, upVars, qrVars, findVars, seVars, pathVars, authVars, procVars, saveVars, rsVars, cbVars, qhVars>>
    \/ \E i \in DOMAIN polling.threads :
          PollerTick(i) /\ UNCHANGED <<isVars, concVars, storeVars, qmVars, afVars, sendVars, upVars, qrVars, findVars, seVars, pathVars, authVars, procVars, saveVars, rsVars, cbVars, qhVars>>

SpecPolling == InitSeq /\ [][NextPolling]_vars

\* C37: over any sequence of start_auto_forwarding and stop_auto_forwarding
\* calls, at most one polling thread is inside a forwarding tick at any time.
C37_AtMostOnePollerTicks ==
    Cardinality({i \in DOMAIN polling.threads : polling.threads[i] = "tick"}) <= 1

(***************************************************************************)
(* De-anonymisation by the query handler                                   *)
(***************************************************************************)
\* the tags the API can return as patient names
Tags == {AnonName(c) : c \in 1..Cardinality(Names)}

\* reverse_name_map = {v: k for k, v in patient_name_map.items()}, looked up
\* with value; the value itself when it is not a key
ReverseLookup(name_map, value) ==
    IF \E n \in DOMAIN name_map : name_map[n] = value
    THEN CHOOSE n \in DOMAIN name_map : name_map[n] = value
    ELSE value

\* DicomQueryHandler._deanonymize_patient_info on a patient_name field
DeanonymizePatientInfo(value) ==
    ReverseLookup(query_handler.patient_name_map, value)

\* ApiIntegrationUtils._deanonymize_dicom_dataset on PatientName
DeanonymizeDicomDataset(value) ==
    ReverseLookup(query_handler.patient_name_map, value)

\* history: the names the C-STORE handlers' DicomAnonymizer maps to value
KnownNames(value) ==
    {n \in DOMAIN idstore.patient_name_map : idstore.patient_name_map[n] = value}

\* query_all_dicom_metadata de-anonymises a patient name of the API answer
QueryDeanonymizes(value) ==
    /\ query_handler' = [query_handler EXCEPT !.last =
          [called |-> TRUE, component |-> "query_all_dicom_metadata", value |-> value,
           result |-> DeanonymizePatientInfo(value), known |-> KnownNames(value)]]
    /\ UNCHANGED idstore

\* download_series_from_api de-anonymises the PatientName of a downloaded
\* file (C-GET, C-MOVE and the auto-forwarder)
DownloadDeanonymizes(value) ==
    /\ query_handler' = [query_handler EXCEPT !.last =
          [called |-> TRUE, component |-> "download_series_from_api", value |-> value,
           result |-> DeanonymizeDicomDataset(value), known |-> KnownNames(value)]]
    /\ UNCHANGED idstore

\* the process ends between two C-STOREs and starts again: both
\* DicomAnonymizer objects are constructed from the map file
RestartBetweenStores ==
    /\ idstore.pc = "idle"
    /\ ProcessRestart
    /\ query_handler' = [patient_name_map |-> LoadPatientInfoMap(idstore.disk),
                         last |-> NoDeanon]

NextDeanon ==
    \/ \E n \in Names :
          AnonymizeName(n) /\ UNCHANGED query_handler /\ UNCHANGED <<isVars, concVars, storeVars, qmVars, afVars, sendVars, upVars, qrVars, findVars, seVars, pathVars, authVars, procVars, saveVars, cbVars, pollVars>>
    \/ SaveOpens /\ UNCHANGED query_handler /\ UNCHANGED <<isVars, concVars, storeVars, qmVars, afVars, sendVars, upVars, qrVars, findVars, seVars, pathVars, authVars, procVars, saveVars, cbVars, pollVars>>
    \/ SaveWrites /\ UNCHANGED query_handler /\ UNCHANGED <<isVars, concVars, storeVars, qmVars, afVars, sendVars, upVars, qrVars, findVars, seVars, pathVars, authVars, procVars, saveVars, cbVars, pollVars>>
    \/ SaveCloses /\ UNCHANGED query_handler /\ UNCHANGED <<isVars, concVars, storeVars, qmVars, afVars, sendVars, upVars, qrVars, findVars, seVars, pathVars, authVars, procVars, saveVars, cbVars, pollVars>>
    \/ \E v \in Tags :
          QueryDeanonymizes(v) /\ UNCHANGED <<isVars, concVars, storeVars, qmVars, afVars, sendVars, upVars, qrVars, findVars, seVars, pathVars, authVars, procVars, saveVars, cbVars, pollVars>>
    \/ \E v \in Tags :
          DownloadDeanonymizes(v) /\ UNCHANGED <<isVars, concVars, storeVars, qmVars, afVars, sendVars, upVars, qrVars, findVars, seVars, pathVars, authVars, procVars, saveVars, cbVars, pollVars>>
    \/ RestartBetweenStores /\ UNCHANGED <<isVars, concVars, storeVars, qmVars, afVars, sendVars, upVars, qrVars, findVars, seVars, pathVars, authVars, procVars, saveVars, cbVars, pollVars>>

SpecDeanon == InitSeq /\ [][NextDeanon]_vars

\* C38: a name-to-tag mapping created by a C-STORE is visible to every later
\* de-anonymisation in the same process: a de-anonymisation of a tag that the
\* C-STORE handlers' map holds at that moment gives the name mapped to it.
C38_DeanonymisationSeesStoreMappings ==
    (query_handler.last.called /\ query_handler.last.known # {})
        => query_handler.last.result \in query_handler.last.known

(***************************************************************************)
(* The path of get_file_path against the storage root                      *)
(***************************************************************************)
\* the number of directories below the storage root at which the patient
\* segment leaves the path when the file system resolves it: "." stays in the
\* root, ".." goes to its parent, any other name goes one level down
PatientLevel(dir) ==
    IF dir = <<".", ".">> THEN -1
    ELSE IF dir = <<".">> THEN 0
    ELSE 1

\* C39: the path get_file_path returns lies inside the storage root: the
\* patient segment does not resolve to a directory above it.
C39_PathInsideRoot ==
    \A i \in 1..Len(path_calls) : PatientLevel(path_calls[i].path[1]) >= 0

(***************************************************************************)
(* get_study_path_by_uid against the files of a study                      *)
(***************************************************************************)
\* the patient directories under the storage root that have a directory of
\* the study
PatientDirsOfStudy(study_uid) == {f[1] : f \in {g \in DOMAIN files : g[2] = study_uid}}

\* DicomStorage.get_study_path_by_uid: the study directory of the first
\* patient directory, in the order of iterdir(), that has one; the order is
\* up to the file system, so every such directory is a possible result.  The
\* fallback is <root>/<study_uid>.
GetStudyPathByUid(study_uid) ==
    IF PatientDirsOfStudy(study_uid) = {} THEN {<<study_uid>>}
    ELSE {<<dir, study_uid>> : dir \in PatientDirsOfStudy(study_uid)}

\* file lies under the directory dir
IsUnder(file, dir) == Len(dir) <= Len(file) /\ SubSeq(file, 1, Len(dir)) = dir

\* C40: after any sequence of C-STOREs, the directory get_study_path_by_uid(S)
\* returns contains every instance stored for study S.
C40_StudyPathHoldsWholeStudy ==
    \A study_uid \in Studies : \A dir \in GetStudyPathByUid(study_uid) :
        \A f \in DOMAIN files : f[2] = study_uid => IsUnder(f, dir)

==============================================================================
